---- MODULE Spec2Model ----
(***************************************************************************)
(* Model of the sample classification engine (scripts/cancer_classification*)
(* .py), of the metadata reconciliation scripts (scripts/merge_metadata_   *)
(* *.py), of the FASTQ download (scripts/download_fastq_by_category.py)    *)
(* and of the complete pipeline (scripts/cancer_analysis_pipeline.py).     *)
(*                                                                         *)
(* Python strings are modelled as sequences of one-character strings, so   *)
(* that substring tests, lower(), strip() and the regular expression       *)
(* \b<name>\b are computed character by character as Python computes them. *)
(***************************************************************************)
EXTENDS Integers, Sequences, FiniteSets, TLC

VARIABLES
    pc,               \* position of the run: "load", "classify", "done"; "merge", "merged";
                      \* "read", "classified", "partitioned"; "download"; "pipeline"
    ref_file,         \* the cell-line reference CSV handed to load_cell_line_reference
    cell_line_names,  \* what load_cell_line_reference returned (None or a set of names)
    row,              \* the input row being classified (column -> str(value))
    all_text,         \* the blob built by classify_cancer_type
    primary,          \* the classification after stages 1-6 (line 148)
    result,           \* the dictionary returned by classify_cancer_type
    script,           \* which reconciliation script runs
    sources,          \* the source tables the reconciliation script loaded
    outcome,          \* how the reconciliation run ended and what it wrote
    df,               \* the metadata table cancer_classification.py read
    result_df,        \* how the table pass ended and the table it wrote
    classified,       \* the table load_classified_metadata read
    category_srr,     \* what load_classified_metadata returned
    args,             \* the command line of download_fastq_by_category.py and the lists it loaded
    futures,          \* the download_srr calls submitted to the thread pool
    download,         \* main and download_category of the download script
    pipeline          \* the run of CancerAnalysisPipeline.run_complete_pipeline

vars == <<pc, ref_file, cell_line_names, row, all_text, primary, result,
          script, sources, outcome, df, result_df, classified, category_srr,
          args, futures, download, pipeline>>

(***************************************************************************)
(* Characters and string primitives                                        *)
(***************************************************************************)
UpperToLower ==
    [A |-> "a", B |-> "b", C |-> "c", D |-> "d", E |-> "e", F |-> "f", G |-> "g",
     H |-> "h", I |-> "i", J |-> "j", K |-> "k", L |-> "l", M |-> "m", N |-> "n",
     O |-> "o", P |-> "p", Q |-> "q", R |-> "r", S |-> "s", T |-> "t", U |-> "u",
     V |-> "v", W |-> "w", X |-> "x", Y |-> "y", Z |-> "z"]

LowerLetters == { UpperToLower[u] : u \in DOMAIN UpperToLower }

Digits == {"0", "1", "2", "3", "4", "5", "6", "7", "8", "9"}

\* the characters the regular expression class \w accepts
WordChars == LowerLetters \cup DOMAIN UpperToLower \cup Digits \cup {"_"}

\* the characters str.strip() removes
Whitespace == {" "}

IsWordChar(c) == c \in WordChars

\* one character of str.lower()
LowerChar(c) == IF c \in DOMAIN UpperToLower THEN UpperToLower[c] ELSE c

\* str.lower()
RECURSIVE str_lower(_)
str_lower(s) == IF s = <<>> THEN <<>> ELSE <<LowerChar(Head(s))>> \o str_lower(Tail(s))

\* str.strip()
RECURSIVE lstrip(_)
lstrip(s) == IF s # <<>> /\ Head(s) \in Whitespace THEN lstrip(Tail(s)) ELSE s

RECURSIVE rstrip(_)
rstrip(s) ==
    IF s # <<>> /\ s[Len(s)] \in Whitespace THEN rstrip(SubSeq(s, 1, Len(s) - 1)) ELSE s

str_strip(s) == rstrip(lstrip(s))

\* Python's `k in s` for two strings
Contains(s, k) ==
    \E i \in 0..(Len(s) - Len(k)) : \A j \in 1..Len(k) : s[i + j] = k[j]

\* Python's `x in list`
InList(x, list) == \E i \in 1..Len(list) : list[i] = x

\* ' '.join(parts)
RECURSIVE join_space(_)
join_space(parts) ==
    IF parts = <<>> THEN <<>>
    ELSE IF Len(parts) = 1 THEN parts[1]
    ELSE parts[1] \o <<" ">> \o join_space(Tail(parts))

\* any(keyword in text for keyword in keywords)
any_keyword(text, keywords) == \E i \in 1..Len(keywords) : Contains(text, keywords[i])

\* is the character at position q of text a \w character (positions outside
\* the string count as non-word, as for \b at the ends of the string)
WordAt(text, q) == q >= 1 /\ q <= Len(text) /\ IsWordChar(text[q])

\* \b between positions p and p+1 of text
WordBoundary(text, p) == WordAt(text, p) # WordAt(text, p + 1)

\* re.search(rf'\b{re.escape(name)}\b', text) is not None
re_search_word(name, text) ==
    \E i \in 0..(Len(text) - Len(name)) :
        /\ WordBoundary(text, i)
        /\ \A j \in 1..Len(name) : text[i + j] = name[j]
        /\ WordBoundary(text, i + Len(name))

(***************************************************************************)
(* load_cell_line_reference                                                *)
(***************************************************************************)
MinNameLen == 3

s_nan == <<"n","a","n">>

\* a cell of the reference CSV: a string, or NaN / a missing column
NaCell == [na |-> TRUE, text |-> <<>>]
TextCell(t) == [na |-> FALSE, text |-> t]

\* the return value None and a returned set
NoneRef == [none |-> TRUE, names |-> {}]
SetRef(names) == [none |-> FALSE, names |-> names]

\* lines 24-27 without the strip() of line 25
cell_names_unstripped(cell) ==
    IF cell.na THEN {}
    ELSE LET name == cell.text
         IN  IF name # <<>> /\ Len(name) >= MinNameLen THEN {str_lower(name)} ELSE {}

\* lines 24-27 and 30-33: the name one cell contributes
cell_names(cell) ==
    IF cell.na THEN {}
    ELSE LET name == str_strip(cell.text)
         IN  IF name # <<>> /\ Len(name) >= MinNameLen THEN {str_lower(name)} ELSE {}

load_cell_line_reference(file) ==
    IF ~file.readable THEN NoneRef
    ELSE SetRef(UNION { cell_names(r.CellLineName) \cup cell_names(r.StrippedCellLineName) :
                        r \in file.rows })

(***************************************************************************)
(* classify_cancer_type                                                    *)
(***************************************************************************)
InitialClassification ==
    [top_label |-> "Unknown", is_cell_line |-> "no", is_bulk_sorted |-> "no",
     is_control |-> "no", adjacent_normal |-> "no", barrett_grade |-> "unknown",
     tissue_origin |-> ""]

fields_to_check ==
    <<"cell_line", "disease", "tissue_type", "sample_title", "study_title",
      "experiment_title", "source_name", "cell_type", "disease_state",
      "histological_type", "treatment", "genotype", "phenotype",
      "SampleName", "Histological_Type", "Body_Site", "Tumor", "Analyte_Type",
      "Disease", "experiment_title", "study_title", "sample_title",
      "age", "altitude", "environment_biome", "host", "host_body_site",
      "isolate", "location", "sex", "strain", "temperature", "dev_stage",
      "environment_feature", "environment_material", "environmental_medium",
      "environmental_sample", "host_genotype", "host_phenotype",
      "biomaterial_provider", "organism_part", "sampling_site", "analyte_type",
      "body_site", "disease_staging", "is_tumor", "subject_is_affected",
      "individual", "replicate", "experimental_factor">>

\* str(row.get(field, ''))
row_str(r, field) == IF field \in DOMAIN r THEN r[field] ELSE <<>>

\* lines 74-78
RECURSIVE collect_text_parts(_, _)
collect_text_parts(r, i) ==
    IF i > Len(fields_to_check) THEN <<>>
    ELSE LET value == str_lower(row_str(r, fields_to_check[i]))
         IN  (IF value # <<>> /\ value # s_nan THEN <<value>> ELSE <<>>)
             \o collect_text_parts(r, i + 1)

\* line 80
build_all_text(r) == join_space(collect_text_parts(r, 1))

tumor_flags == <<<<"y","e","s">>, <<"t","r","u","e">>, <<"1">>>>

\* line 86 without .lower(): the flag compared case-sensitively
explicit_tumor_flag_case_sensitive(r) ==
    \/ InList(row_str(r, "Tumor"), tumor_flags)
    \/ InList(row_str(r, "is_tumor"), tumor_flags)

\* line 86
explicit_tumor_flag(r) ==
    \/ InList(str_lower(row_str(r, "Tumor")), tumor_flags)
    \/ InList(str_lower(row_str(r, "is_tumor")), tumor_flags)

generic_cell_line_keywords ==
    <<<<"c","e","l","l"," ","l","i","n","e">>, <<"c","u","l","t","u","r","e">>, <<"p","a","s","s","a","g","e","d">>, <<"c","e","l","l","l","i","n","e">>, <<"c","l">>, <<"l","i","n","e">>>>

pre_malignant_keywords ==
    <<<<"b","a","r","r","e","t","t">>, <<"m","e","t","a","p","l","a","s","i","a">>, <<"d","y","s","p","l","a","s","i","a">>, <<"l","g","d">>, <<"h","g","d">>, <<"i","n","d","e","f","i","n","i","t","e">>,
      <<"p","r","e","-","m","a","l","i","g","n","a","n","t">>, <<"p","r","e","m","a","l","i","g","n","a","n","t">>, <<"p","r","e","c","u","r","s","o","r">>, <<"a","t","y","p","i","a">>, <<"h","y","p","e","r","p","l","a","s","i","a">>>>

normal_keywords ==
    <<<<"n","o","r","m","a","l">>, <<"h","e","a","l","t","h","y">>, <<"c","o","n","t","r","o","l">>, <<"n","o","n","-","d","i","s","e","a","s","e","d">>, <<"s","q","u","a","m","o","u","s"," ","e","p","i","t","h","e","l","i","u","m">>,
      <<"h","e","a","l","t","h","y"," ","d","o","n","o","r">>, <<"b","a","s","e","l","i","n","e">>, <<"w","i","l","d"," ","t","y","p","e">>, <<"w","t">>, <<"b","e","n","i","g","n">>>>

cancer_keywords ==
    <<<<"c","a","r","c","i","n","o","m","a">>, <<"c","a","n","c","e","r">>, <<"t","u","m","o","r">>, <<"t","u","m","o","u","r">>, <<"m","a","l","i","g","n","a","n","t">>, <<"a","d","e","n","o","c","a","r","c","i","n","o","m","a">>,
      <<"s","q","u","a","m","o","u","s"," ","c","e","l","l"," ","c","a","r","c","i","n","o","m","a">>, <<"s","c","c">>, <<"i","n","v","a","s","i","v","e">>, <<"m","e","t","a","s","t","a","t","i","c">>, <<"n","e","o","p","l","a","s","m">>,
      <<"e","s","o","p","h","a","g","e","a","l"," ","a","d","e","n","o","c","a","r","c","i","n","o","m","a">>, <<"e","a","c">>, <<"e","s","o","p","h","a","g","e","a","l"," ","c","a","n","c","e","r">>, <<"e","a","c","1","4","1","6">>,
      <<"s","a","r","c","o","m","a">>, <<"l","y","m","p","h","o","m","a">>, <<"l","e","u","k","e","m","i","a">>, <<"m","e","l","a","n","o","m","a">>, <<"g","l","i","o","b","l","a","s","t","o","m","a">>,
      <<"b","l","a","s","t","o","m","a">>, <<"c","a","r","c","i","n","o","i","d">>, <<"a","d","e","n","o","m","a">>, <<"p","a","p","i","l","l","o","m","a">>, <<"f","i","b","r","o","m","a">>>>

bulk_sorted_keywords ==
    <<<<"s","o","r","t","e","d">>, <<"p","u","r","i","f","i","e","d">>, <<"i","s","o","l","a","t","e","d">>, <<"e","n","r","i","c","h","e","d">>, <<"f","a","c","s">>, <<"m","a","g","n","e","t","i","c">>,
      <<"c","d","4">>, <<"c","d","8">>, <<"t"," ","c","e","l","l">>, <<"b"," ","c","e","l","l">>, <<"m","o","n","o","c","y","t","e">>, <<"m","a","c","r","o","p","h","a","g","e">>>>

adjacent_normal_keywords ==
    <<<<"a","d","j","a","c","e","n","t">>, <<"m","a","r","g","i","n","a","l"," ","n","o","r","m","a","l">>, <<"p","a","i","r","e","d"," ","n","o","r","m","a","l">>, <<"s","u","r","r","o","u","n","d","i","n","g"," ","n","o","r","m","a","l">>,
      <<"n","o","r","m","a","l"," ","a","d","j","a","c","e","n","t">>, <<"a","d","j","a","c","e","n","t"," ","n","o","r","m","a","l">>>>

\* lines 93-95: is one reference entry found in the blob
entry_matches(name, text) == Len(name) >= MinNameLen /\ re_search_word(name, text)

\* lines 92-98 with the break outside the if: only the first entry visited is tested
reference_scan_first_only(order, i, text) ==
    i <= Len(order) /\ entry_matches(order[i], text)

\* lines 92-98: the loop over the reference set, taken in iteration order
\* `order`; TRUE when some entry is found and the loop breaks
RECURSIVE reference_scan(_, _, _)
reference_scan(order, i, text) ==
    IF i > Len(order) THEN FALSE
    ELSE IF entry_matches(order[i], text) THEN TRUE
    ELSE reference_scan(order, i + 1, text)

\* lines 96-97 with the label spelled as the download script spells it
mark_cell_line_misspelled(c) ==
    [c EXCEPT !.top_label = "Cell_line", !.is_cell_line = "yes"]

\* lines 96-97, 103-104, 109-110
mark_cell_line(c) == [c EXCEPT !.top_label = "Cell line", !.is_cell_line = "yes"]

\* lines 84-110 with the reference scan as an `if` of its own: a flagged row
\* is still marked as a cell line
cell_line_stage_scan_always(c, r, text, ref, order) ==
    LET c0 == IF ~ref.none /\ reference_scan(order, 1, text)
              THEN [c EXCEPT !.is_cell_line = "yes"] ELSE c
    IN  IF explicit_tumor_flag(r) THEN [c0 EXCEPT !.top_label = "Tumor"]
        ELSE IF ~ref.none /\ Cardinality(ref.names) > 0 THEN
            LET c1 == IF reference_scan(order, 1, text) THEN mark_cell_line(c) ELSE c
            IN  IF c1.top_label # "Cell line" /\ any_keyword(text, generic_cell_line_keywords)
                THEN mark_cell_line(c1)
                ELSE c1
        ELSE IF ref.none THEN
            IF any_keyword(text, generic_cell_line_keywords) THEN mark_cell_line(c) ELSE c
        ELSE c

\* lines 84-110: stages 1-3
cell_line_stage(c, r, text, ref, order) ==
    IF explicit_tumor_flag(r) THEN [c EXCEPT !.top_label = "Tumor"]
    ELSE IF ~ref.none /\ Cardinality(ref.names) > 0 THEN
        LET c1 == IF reference_scan(order, 1, text) THEN mark_cell_line(c) ELSE c
        IN  IF c1.top_label # "Cell line" /\ any_keyword(text, generic_cell_line_keywords)
            THEN mark_cell_line(c1)
            ELSE c1
    ELSE IF ref.none THEN
        IF any_keyword(text, generic_cell_line_keywords) THEN mark_cell_line(c) ELSE c
    ELSE c

\* lines 121-128 with the last elif written as else
barrett_grade_of_else(c, text) ==
    IF Contains(text, <<"l","g","d">>) \/ Contains(text, <<"l","o","w"," ","g","r","a","d","e"," ","d","y","s","p","l","a","s","i","a">>) THEN "LGD"
    ELSE IF Contains(text, <<"h","g","d">>) \/ Contains(text, <<"h","i","g","h"," ","g","r","a","d","e"," ","d","y","s","p","l","a","s","i","a">>) THEN "HGD"
    ELSE IF Contains(text, <<"i","n","d","e","f","i","n","i","t","e">>) THEN "indefinite"
    ELSE "no dysplasia"

\* the grade ladder with the HGD test before the LGD test
barrett_grade_of_hgd_first(c, text) ==
    IF Contains(text, <<"h","g","d">>) \/ Contains(text, <<"h","i","g","h"," ","g","r","a","d","e"," ","d","y","s","p","l","a","s","i","a">>) THEN "HGD"
    ELSE IF Contains(text, <<"l","g","d">>) \/ Contains(text, <<"l","o","w"," ","g","r","a","d","e"," ","d","y","s","p","l","a","s","i","a">>) THEN "LGD"
    ELSE IF Contains(text, <<"i","n","d","e","f","i","n","i","t","e">>) THEN "indefinite"
    ELSE IF Contains(text, <<"n","o"," ","d","y","s","p","l","a","s","i","a">>) THEN "no dysplasia"
    ELSE c.barrett_grade

\* lines 121-128: the grade ladder; without a grade token the value of line 54 stays
barrett_grade_of(c, text) ==
    IF Contains(text, <<"l","g","d">>) \/ Contains(text, <<"l","o","w"," ","g","r","a","d","e"," ","d","y","s","p","l","a","s","i","a">>) THEN "LGD"
    ELSE IF Contains(text, <<"h","g","d">>) \/ Contains(text, <<"h","i","g","h"," ","g","r","a","d","e"," ","d","y","s","p","l","a","s","i","a">>) THEN "HGD"
    ELSE IF Contains(text, <<"i","n","d","e","f","i","n","i","t","e">>) THEN "indefinite"
    ELSE IF Contains(text, <<"n","o"," ","d","y","s","p","l","a","s","i","a">>) THEN "no dysplasia"
    ELSE c.barrett_grade

\* lines 112-128 with the grade ladder outside the test of line 113
pre_malignant_stage_grade_always(c, text) ==
    IF any_keyword(text, pre_malignant_keywords)
    THEN [c EXCEPT !.top_label = IF c.top_label = "Unknown" THEN "Pre-malignant"
                                 ELSE c.top_label,
                   !.barrett_grade = barrett_grade_of(c, text)]
    ELSE c

\* lines 112-128: stage 4
pre_malignant_stage(c, text) ==
    IF c.top_label = "Unknown" /\ any_keyword(text, pre_malignant_keywords)
    THEN [c EXCEPT !.top_label = "Pre-malignant", !.barrett_grade = barrett_grade_of(c, text)]
    ELSE c

\* lines 130-137: stage 5
normal_stage(c, text) ==
    IF c.top_label = "Unknown" /\ any_keyword(text, normal_keywords)
    THEN [c EXCEPT !.top_label = "Normal", !.is_control = "yes"]
    ELSE c

\* lines 139-148: stage 6
cancer_stage(c, text) ==
    IF c.top_label = "Unknown" /\ any_keyword(text, cancer_keywords)
    THEN [c EXCEPT !.top_label = "Tumor"]
    ELSE c

\* lines 152-157 run only for a row no primary stage labelled
bulk_sorted_rule_unlabelled_only(c, text) ==
    IF c.top_label = "Unknown" /\ any_keyword(text, bulk_sorted_keywords)
    THEN [c EXCEPT !.is_bulk_sorted = "yes"] ELSE c

\* lines 152-157
bulk_sorted_rule(c, text) ==
    IF any_keyword(text, bulk_sorted_keywords) THEN [c EXCEPT !.is_bulk_sorted = "yes"] ELSE c

\* lines 159-166 without the test of line 165: the label is always overwritten
adjacent_normal_rule_overriding(c, text) ==
    IF any_keyword(text, adjacent_normal_keywords)
    THEN [c EXCEPT !.adjacent_normal = "yes", !.top_label = "Normal"]
    ELSE c

\* lines 159-166
adjacent_normal_rule(c, text) ==
    IF any_keyword(text, adjacent_normal_keywords)
    THEN [c EXCEPT !.adjacent_normal = "yes",
                   !.top_label = IF c.top_label = "Unknown" THEN "Normal" ELSE c.top_label]
    ELSE c

\* lines 169-191 with the stomach test before the esophagus test
tissue_origin_of_stomach_first(tissue_text) ==
    IF Contains(tissue_text, <<"s","t","o","m","a","c","h">>) \/ Contains(tissue_text, <<"g","a","s","t","r","i","c">>)
        THEN "stomach"
    ELSE IF Contains(tissue_text, <<"e","s","o","p","h","a","g","u","s">>) \/ Contains(tissue_text, <<"e","s","o","p","h","a","g","e","a","l">>)
        THEN "esophagus"
    ELSE IF \/ Contains(tissue_text, <<"i","n","t","e","s","t","i","n","e">>) \/ Contains(tissue_text, <<"i","n","t","e","s","t","i","n","a","l">>)
            \/ Contains(tissue_text, <<"c","o","l","o","n">>)
        THEN "intestine"
    ELSE IF Contains(tissue_text, <<"l","u","n","g">>) \/ Contains(tissue_text, <<"p","u","l","m","o","n","a","r","y">>)
        THEN "lung"
    ELSE IF Contains(tissue_text, <<"l","i","v","e","r">>) \/ Contains(tissue_text, <<"h","e","p","a","t","i","c">>)
        THEN "liver"
    ELSE IF Contains(tissue_text, <<"b","r","e","a","s","t">>) \/ Contains(tissue_text, <<"m","a","m","m","a","r","y">>)
        THEN "breast"
    ELSE IF Contains(tissue_text, <<"b","r","a","i","n">>) \/ Contains(tissue_text, <<"c","e","r","e","b","r","a","l">>)
        THEN "brain"
    ELSE IF Contains(tissue_text, <<"o","v","a","r","y">>) \/ Contains(tissue_text, <<"o","v","a","r","i","a","n">>)
        THEN "ovary"
    ELSE IF Contains(tissue_text, <<"p","r","o","s","t","a","t","e">>) \/ Contains(tissue_text, <<"p","r","o","s","t","a","t","i","c">>)
        THEN "prostate"
    ELSE IF Contains(tissue_text, <<"p","a","n","c","r","e","a","s">>) \/ Contains(tissue_text, <<"p","a","n","c","r","e","a","t","i","c">>)
        THEN "pancreas"
    ELSE "unknown"

\* lines 169-191
tissue_origin_of(tissue_text) ==
    IF Contains(tissue_text, <<"e","s","o","p","h","a","g","u","s">>) \/ Contains(tissue_text, <<"e","s","o","p","h","a","g","e","a","l">>)
        THEN "esophagus"
    ELSE IF Contains(tissue_text, <<"s","t","o","m","a","c","h">>) \/ Contains(tissue_text, <<"g","a","s","t","r","i","c">>)
        THEN "stomach"
    ELSE IF \/ Contains(tissue_text, <<"i","n","t","e","s","t","i","n","e">>) \/ Contains(tissue_text, <<"i","n","t","e","s","t","i","n","a","l">>)
            \/ Contains(tissue_text, <<"c","o","l","o","n">>)
        THEN "intestine"
    ELSE IF Contains(tissue_text, <<"l","u","n","g">>) \/ Contains(tissue_text, <<"p","u","l","m","o","n","a","r","y">>)
        THEN "lung"
    ELSE IF Contains(tissue_text, <<"l","i","v","e","r">>) \/ Contains(tissue_text, <<"h","e","p","a","t","i","c">>)
        THEN "liver"
    ELSE IF Contains(tissue_text, <<"b","r","e","a","s","t">>) \/ Contains(tissue_text, <<"m","a","m","m","a","r","y">>)
        THEN "breast"
    ELSE IF Contains(tissue_text, <<"b","r","a","i","n">>) \/ Contains(tissue_text, <<"c","e","r","e","b","r","a","l">>)
        THEN "brain"
    ELSE IF Contains(tissue_text, <<"o","v","a","r","y">>) \/ Contains(tissue_text, <<"o","v","a","r","i","a","n">>)
        THEN "ovary"
    ELSE IF Contains(tissue_text, <<"p","r","o","s","t","a","t","e">>) \/ Contains(tissue_text, <<"p","r","o","s","t","a","t","i","c">>)
        THEN "prostate"
    ELSE IF Contains(tissue_text, <<"p","a","n","c","r","e","a","s">>) \/ Contains(tissue_text, <<"p","a","n","c","r","e","a","t","i","c">>)
        THEN "pancreas"
    ELSE "unknown"

\* lines 168-191 without the final else: '' of line 55 stays when nothing matches
tissue_origin_rule_no_default(c, r, text) ==
    LET t == tissue_origin_of(text \o <<" ">> \o str_lower(row_str(r, "Body_Site")))
    IN  IF t = "unknown" THEN c ELSE [c EXCEPT !.tissue_origin = t]

\* lines 168-191
tissue_origin_rule(c, r, text) ==
    [c EXCEPT !.tissue_origin =
        tissue_origin_of(text \o <<" ">> \o str_lower(row_str(r, "Body_Site")))]

\* lines 48-148: the classification after the primary-label cascade
primary_cascade(r, text, ref, order) ==
    cancer_stage(
        normal_stage(
            pre_malignant_stage(
                cell_line_stage(InitialClassification, r, text, ref, order), text),
            text),
        text)

\* lines 150-201: the secondary attributes and the returned dictionary
secondary_rules(c, r, text) ==
    tissue_origin_rule(adjacent_normal_rule(bulk_sorted_rule(c, text), text), r, text)

classify_cancer_type(r, ref, order) ==
    LET text == build_all_text(r)
    IN  secondary_rules(primary_cascade(r, text, ref, order), r, text)

\* the orders in which `for cell_line_name in cell_line_names` can visit a set
IterationOrders(names) ==
    { o \in [1..Cardinality(names) -> names] :
        \A i, j \in 1..Cardinality(names) : i # j => o[i] # o[j] }

(***************************************************************************)
(* DataFrames of the reconciliation scripts                                *)
(*                                                                         *)
(* A frame is a sequence of column names and a sequence of rows, each row  *)
(* a sequence of values aligned with the columns; values are strings or    *)
(* NaN.                                                                    *)
(***************************************************************************)
NaN == <<"NaN">>

\* pd.DataFrame()
EmptyFrame == [cols |-> <<>>, rows |-> <<>>]

\* DataFrame.empty: no column or no row
df_empty(t) == t.cols = <<>> \/ t.rows = <<>>

\* c in df.columns
has_col(t, c) == \E i \in 1..Len(t.cols) : t.cols[i] = c

col_index(t, c) ==
    CHOOSE i \in 1..Len(t.cols) : t.cols[i] = c /\ \A j \in 1..(i - 1) : t.cols[j] # c

indices(s) == [i \in 1..Len(s) |-> i]

RECURSIVE flatten(_)
flatten(ss) == IF ss = <<>> THEN <<>> ELSE Head(ss) \o flatten(Tail(ss))

\* df.rename(columns={old: new})
df_rename(t, old, new) ==
    [t EXCEPT !.cols = [i \in 1..Len(t.cols) |-> IF t.cols[i] = old THEN new ELSE t.cols[i]]]

\* str(value)
value_str(v) == IF v = NaN THEN <<"n","a","n">> ELSE v

\* value.startswith(prefix) for a string value
starts_with(v, prefix) ==
    Len(v) >= Len(prefix) /\ \A j \in 1..Len(prefix) : v[j] = prefix[j]

\* the printable ASCII characters in code order (the backquote left out)
AsciiPrintable ==
    <<" ", "!", "\"", "#", "$", "%", "&", "'", "(", ")", "*", "+",
      ",", "-", ".", "/", "0", "1", "2", "3", "4", "5", "6", "7",
      "8", "9", ":", ";", "<", "=", ">", "?", "@", "A", "B", "C",
      "D", "E", "F", "G", "H", "I", "J", "K", "L", "M", "N", "O",
      "P", "Q", "R", "S", "T", "U", "V", "W", "X", "Y", "Z", "[",
      "\\", "]", "^", "_", "a", "b", "c", "d", "e", "f", "g",
      "h", "i", "j", "k", "l", "m", "n", "o", "p", "q", "r", "s",
      "t", "u", "v", "w", "x", "y", "z", "{", "|", "}", "~">>

\* merge_metadata_cancer_classification.py, lines 289-312
cancer_classification_cols ==
    <<"run_accession", "Experiment", "SampleName", "BioSample", "SRAStudy",
      "BioProject", "study_accession", "secondary_study_accession",
      "experiment_accession", "sample_accession", "secondary_sample_accession",
      "LibraryLayout", "LibraryStrategy", "LibrarySource", "Platform", "Model",
      "instrument_model", "library_layout", "library_strategy", "library_source",
      "read_count", "base_count", "first_public", "last_updated", "age", "altitude",
      "cell_line", "cell_type", "disease", "environment_biome", "host",
      "host_body_site", "isolate", "location", "sex", "strain", "temperature",
      "tissue_type", "treatment", "genotype", "phenotype", "source_name",
      "biomaterial_provider", "organism_part", "sampling_site", "analyte_type",
      "body_site", "histological_type", "disease_staging", "is_tumor",
      "subject_is_affected", "individual", "replicate", "experimental_factor",
      "broker_name", "center_name", "experiment_title", "library_name",
      "library_selection", "scientific_name", "collection_date", "study_title",
      "sample_title", "submitted_ftp", "fastq_ftp", "dev_stage", "environment_feature",
      "environment_material", "environmental_medium", "environmental_sample",
      "host_genotype", "host_phenotype", "ReleaseDate", "LoadDate", "spots", "bases",
      "spots_with_mates", "avgLength", "size_MB", "AssemblyName", "download_path",
      "LibraryName", "LibrarySelection", "InsertSize", "InsertDev", "Study_Pubmed_id",
      "ProjectID", "Sample", "SampleType", "TaxID", "ScientificName", "g1k_pop_code",
      "source", "g1k_analysis_group", "Subject_ID", "Sex", "Disease", "Tumor",
      "Affection_Status", "Analyte_Type", "Histological_Type", "Body_Site",
      "CenterName", "Submission", "dbgap_study_accession", "Consent", "RunHash",
      "ReadHash">>

\* merge_metadata_enhanced.py, lines 250-261
enhanced_prefer_cols ==
    <<"run_accession", "Experiment", "SampleName", "BioSample", "SRAStudy",
      "BioProject", "study_accession", "secondary_study_accession",
      "experiment_accession", "sample_accession", "secondary_sample_accession",
      "LibraryLayout", "LibraryStrategy", "LibrarySource", "Platform", "Model",
      "instrument_model", "library_layout", "library_strategy", "library_source",
      "read_count", "base_count", "first_public", "last_updated", "age", "altitude",
      "cell_line", "cell_type", "disease", "environment_biome", "host",
      "host_body_site", "isolate", "location", "organism", "phenotype", "sex",
      "strain", "temperature", "tissue_type", "treatment", "biosample_title",
      "biosample_description", "project_title", "project_description">>

\* merge_metadata_maximum.py, lines 361-368
important_cols ==
    <<"run_accession", "experiment_accession", "sample_accession", "study_accession",
      "secondary_sample_accession", "secondary_study_accession", "BioSample",
      "BioProject", "experiment_title", "sample_title", "study_title",
      "sample_description", "library_name", "library_strategy", "library_source",
      "library_layout", "instrument_model", "read_count", "base_count",
      "scientific_name", "collection_date", "first_public", "last_updated">>
char_code(c) == CHOOSE i \in 1..Len(AsciiPrintable) : AsciiPrintable[i] = c

\* a < b for two strings
RECURSIVE str_less(_, _)
str_less(a, b) ==
    IF b = <<>> THEN FALSE
    ELSE IF a = <<>> THEN TRUE
    ELSE IF Head(a) = Head(b) THEN str_less(Tail(a), Tail(b))
    ELSE char_code(Head(a)) < char_code(Head(b))

\* the columns of `right` other than the join key, by position
right_other(right, key) == SelectSeq(indices(right.cols), LAMBDA i : right.cols[i] # key)

\* merge_cols with the overlapping right column left under its own name
merge_cols_no_suffix(left, right, key, suffix) ==
    LET ro == right_other(right, key)
    IN  left.cols \o [k \in 1..Len(ro) |-> right.cols[ro[k]]]

\* the columns of left.merge(right, on=key, suffixes=('', suffix))
merge_cols(left, right, key, suffix) ==
    LET ro == right_other(right, key)
    IN  left.cols \o
        [k \in 1..Len(ro) |->
            IF has_col(left, right.cols[ro[k]])
            THEN right.cols[ro[k]] \o suffix
            ELSE right.cols[ro[k]]]

\* the rows of a left join: every left row, once per right row with its key,
\* or once padded with NaN
left_join_rows(left, right, key) ==
    LET lk == col_index(left, key)
        rk == col_index(right, key)
        ro == right_other(right, key)
        joined(lr) ==
            LET ms == SelectSeq(right.rows, LAMBDA rr : rr[rk] = lr[lk])
            IN  IF ms = <<>> THEN << lr \o [k \in 1..Len(ro) |-> NaN] >>
                ELSE [m \in 1..Len(ms) |-> lr \o [k \in 1..Len(ro) |-> ms[m][ro[k]]]]
    IN  flatten([i \in 1..Len(left.rows) |-> joined(left.rows[i])])

\* the rows an outer join adds: the right rows whose key no left row has
right_only_rows(left, right, key) ==
    LET lk == col_index(left, key)
        rk == col_index(right, key)
        ro == right_other(right, key)
        unmatched == SelectSeq(right.rows,
                        LAMBDA rr : \A i \in 1..Len(left.rows) : left.rows[i][lk] # rr[rk])
    IN  [m \in 1..Len(unmatched) |->
            [c \in 1..Len(left.cols) |-> IF c = lk THEN unmatched[m][rk] ELSE NaN]
            \o [k \in 1..Len(ro) |-> unmatched[m][ro[k]]]]

\* rows sorted by the value in column k, rows with equal keys kept in order
RECURSIVE insert_by_key(_, _, _)
insert_by_key(sorted, r, k) ==
    IF sorted = <<>> THEN <<r>>
    ELSE IF str_less(r[k], Head(sorted)[k]) THEN <<r>> \o sorted
    ELSE <<Head(sorted)>> \o insert_by_key(Tail(sorted), r, k)

RECURSIVE sort_by_key(_, _)
sort_by_key(rows, k) ==
    IF rows = <<>> THEN <<>>
    ELSE insert_by_key(sort_by_key(SubSeq(rows, 1, Len(rows) - 1), k), rows[Len(rows)], k)

\* left.merge(right, on=key, how='left', suffixes=('', suffix))
merge_left(left, right, key, suffix) ==
    [cols |-> merge_cols(left, right, key, suffix),
     rows |-> left_join_rows(left, right, key)]

\* left.merge(right, on=key, how='outer', suffixes=('', suffix))
merge_outer(left, right, key, suffix) ==
    [cols |-> merge_cols(left, right, key, suffix),
     rows |-> sort_by_key(left_join_rows(left, right, key)
                          \o right_only_rows(left, right, key),
                          col_index(left, key))]

\* the state of a run of main: the table merged so far, or an uncaught exception
Ok(t) == [status |-> "ok", t |-> t]
Raised == [status |-> "raised", t |-> EmptyFrame]

\* one merged.merge(...): a KeyError when the key is no column of either frame
try_merge(st, right, key, suffix, how) ==
    IF st.status # "ok" THEN st
    ELSE IF ~has_col(st.t, key) \/ ~has_col(right, key) THEN Raised
    ELSE IF how = "outer" THEN Ok(merge_outer(st.t, right, key, suffix))
    ELSE Ok(merge_left(st.t, right, key, suffix))

\* merged[name] = '' : a new last column, or an existing column overwritten
assign_column(t, name) ==
    IF has_col(t, name)
    THEN [t EXCEPT !.rows = [r \in 1..Len(t.rows) |->
                                [c \in 1..Len(t.cols) |->
                                    IF t.cols[c] = name THEN <<>> ELSE t.rows[r][c]]]]
    ELSE [cols |-> Append(t.cols, name),
          rows |-> [r \in 1..Len(t.rows) |-> Append(t.rows[r], <<>>)]]

RECURSIVE add_geo_columns(_, _)
add_geo_columns(t, geo_cols) ==
    IF geo_cols = <<>> THEN t
    ELSE add_geo_columns(assign_column(t, "geo_" \o Head(geo_cols)), Tail(geo_cols))

\* geo_lookup: the GSE values of the GEO frame in first-insertion order, each
\* with the last GEO row that holds it
geo_lookup(geo) ==
    LET cells == flatten([r \in 1..Len(geo.rows) |->
                    flatten([c \in 1..Len(geo.cols) |->
                        IF geo.rows[r][c] # NaN /\ starts_with(geo.rows[r][c], <<"G","S","E">>)
                        THEN << [gse |-> geo.rows[r][c], row |-> r] >>
                        ELSE <<>>])])
        firsts == SelectSeq(indices(cells),
                      LAMBDA i : \A j \in 1..(i - 1) : cells[j].gse # cells[i].gse)
        last(g) == CHOOSE i \in 1..Len(cells) :
                      cells[i].gse = g /\ \A j \in (i + 1)..Len(cells) : cells[j].gse # g
    IN  [k \in 1..Len(firsts) |->
            [gse |-> cells[firsts[k]].gse, row |-> cells[last(cells[firsts[k]].gse)].row]]

\* merged.at[idx, 'geo_' + col] = val for every column of one GEO row
fill_geo(mrow, cols, geo, g) ==
    [c \in 1..Len(cols) |->
        IF \E k \in 1..Len(geo.cols) : cols[c] = "geo_" \o geo.cols[k]
        THEN geo.rows[g][CHOOSE k \in 1..Len(geo.cols) :
                            /\ cols[c] = "geo_" \o geo.cols[k]
                            /\ \A k2 \in (k + 1)..Len(geo.cols) :
                                   cols[c] # "geo_" \o geo.cols[k2]]
        ELSE mrow[c]]

\* the GEO step of merge_metadata_cancer_classification.py (lines 259-282)
\* and merge_metadata_maximum.py (lines 328-350)
geo_step(t, geo) ==
    IF df_empty(geo) \/ df_empty(t) THEN t
    ELSE
        LET lookup == geo_lookup(geo)
            t1 == add_geo_columns(t, geo.cols)
            matched(mrow) ==
                LET title == value_str(mrow[col_index(t1, "study_title")])
                    hits == SelectSeq(lookup, LAMBDA e : Contains(title, e.gse))
                IN  IF hits = <<>> THEN mrow ELSE fill_geo(mrow, t1.cols, geo, hits[1].row)
        IN  IF has_col(t1, "study_title")
            THEN [t1 EXCEPT !.rows = [r \in 1..Len(t1.rows) |-> matched(t1.rows[r])]]
            ELSE t1

\* merged[names]: for every name all the columns that carry it
df_select(t, names) ==
    LET idx == flatten([n \in 1..Len(names) |->
                   SelectSeq(indices(t.cols), LAMBDA i : t.cols[i] = names[n])])
    IN  [cols |-> [k \in 1..Len(idx) |-> t.cols[idx[k]]],
         rows |-> [r \in 1..Len(t.rows) |-> [k \in 1..Len(idx) |-> t.rows[r][idx[k]]]]]

\* reorder_columns with the preferred columns taken in the table's order
reorder_columns_table_order(t, preferred) ==
    LET prefer == SelectSeq(t.cols, LAMBDA c : InList(c, preferred))
        others == SelectSeq(t.cols, LAMBDA c : ~InList(c, prefer))
    IN  df_select(t, prefer \o others)

\* prefer = [c for c in preferred if c in merged.columns]; others = the rest;
\* merged = merged[prefer + others]
reorder_columns(t, preferred) ==
    LET prefer == SelectSeq(preferred, LAMBDA c : has_col(t, c))
        others == SelectSeq(t.cols, LAMBDA c : ~InList(c, prefer))
    IN  df_select(t, prefer \o others)

\* merged.loc[:, ~merged.columns.duplicated()]
drop_duplicate_columns(t) ==
    LET keep == SelectSeq(indices(t.cols),
                    LAMBDA i : \A j \in 1..(i - 1) : t.cols[j] # t.cols[i])
    IN  [cols |-> [k \in 1..Len(keep) |-> t.cols[keep[k]]],
         rows |-> [r \in 1..Len(t.rows) |-> [k \in 1..Len(keep) |-> t.rows[r][keep[k]]]]]

\* a source file and what its loader returns: pd.DataFrame() for a missing
\* or unparsable file (the exists() tests and the try/except of the loaders)
MissingFile == [exists |-> FALSE, parsable |-> FALSE, table |-> EmptyFrame]
UnparsableFile == [exists |-> TRUE, parsable |-> FALSE, table |-> EmptyFrame]
File(t) == [exists |-> TRUE, parsable |-> TRUE, table |-> t]

load_source(file) == IF file.exists /\ file.parsable THEN file.table ELSE EmptyFrame

\* how a run of main ended
Returned == [status |-> "returned", written |-> FALSE, table |-> EmptyFrame]
Crashed == [status |-> "raised", written |-> FALSE, table |-> EmptyFrame]
Written(t) == [status |-> "written", written |-> TRUE, table |-> t]
IdleOutcome == [status |-> "idle", written |-> FALSE, table |-> EmptyFrame]

\* the GEO step, the column reordering and the removal of duplicate columns,
\* each reached only by a run that has not raised
merge_geo(st, geo) == IF st.status = "ok" THEN Ok(geo_step(st.t, geo)) ELSE st

reorder(st, prefer) == IF st.status = "ok" THEN Ok(reorder_columns(st.t, prefer)) ELSE st

remove_duplicates(st) == IF st.status = "ok" THEN Ok(drop_duplicate_columns(st.t)) ELSE st

\* merged.to_csv(args.outfile, ...)
to_csv(st) == IF st.status = "ok" THEN Written(st.t) ELSE Crashed

\* lines 247-249 of merge_metadata_cancer_classification.py
merge_bios(st, bios) ==
    IF st.status = "ok" /\ ~df_empty(bios) /\ has_col(st.t, "BioSample")
    THEN try_merge(st, bios, "BioSample", "_bs", "left") ELSE st

\* lines 251-253
merge_bioproj(st, bioproj) ==
    IF st.status = "ok" /\ ~df_empty(bioproj) /\ has_col(st.t, "BioProject")
    THEN try_merge(st, bioproj, "BioProject", "_bp", "left") ELSE st

\* lines 255-257
merge_sra_xml(st, sra_xml) ==
    IF ~df_empty(sra_xml) /\ has_col(sra_xml, "run_accession")
    THEN try_merge(st, sra_xml, "run_accession", "_xml", "left") ELSE st

\* the merges with BioSample, BioProject, SRA-XML shared by the three scripts
\* (merge_metadata_cancer_classification.py lines 247-257)
merge_secondary(st, bios, bioproj, sra_xml) ==
    merge_sra_xml(merge_bioproj(merge_bios(st, bios), bioproj), sra_xml)

\* the merge with ffq (merge_metadata_cancer_classification.py lines 284-286)
merge_ffq(st, ffq) ==
    IF ~df_empty(ffq) /\ has_col(ffq, "run_accession")
    THEN try_merge(st, ffq, "run_accession", "_ffq", "left") ELSE st

\* lines 230-240 of merge_metadata_cancer_classification.py, 296-305 of
\* merge_metadata_maximum.py: the table the merges start from
seed(ena, runinfo) ==
    IF ~df_empty(ena) THEN Ok(ena)
    ELSE IF ~df_empty(runinfo) THEN Ok(df_rename(runinfo, "Run", "run_accession"))
    ELSE Ok(EmptyFrame)

\* lines 242-245: the merge with RunInfo when ENA is the seed
merge_runinfo(st, ena, runinfo) ==
    IF ~df_empty(runinfo) /\ ~df_empty(ena)
    THEN try_merge(st, df_rename(runinfo, "Run", "run_accession"),
                   "run_accession", "_sra", "left")
    ELSE st

\* lines 230-245 of merge_metadata_cancer_classification.py, 296-311 of
\* merge_metadata_maximum.py: the seed table and the merge with RunInfo
seed_and_runinfo(ena, runinfo) == merge_runinfo(seed(ena, runinfo), ena, runinfo)

\* the exit status of the process (`if __name__ == "__main__": main()`): 0
\* when main returns, by `return` or by falling off its end, 1 when an
\* exception leaves it
exit_status(o) == IF o.status = "raised" THEN 1 ELSE 0

\* what main hands back to a caller: it has no `return <value>`
return_value(o) == IF o.status = "raised" THEN "exception" ELSE "None"

\* the merges of the non-primary sources in main of
\* merge_metadata_cancer_classification.py (lines 242-257, 284-286), in
\* program order: the source, its join key, the frame merged, and the run
\* before and after the step.  RunInfo is a non-primary source only when ENA
\* is the seed.
merge_steps(src) ==
    LET runinfo == load_source(src.runinfo)
        ena == load_source(src.ena)
        bios == load_source(src.bios)
        bioproj == load_source(src.bioproj)
        sra_xml == load_source(src.sra_xml)
        geo == load_source(src.geo)
        ffq == load_source(src.ffq)
        s0 == seed(ena, runinfo)
        s1 == merge_runinfo(s0, ena, runinfo)
        s2 == merge_bios(s1, bios)
        s3 == merge_bioproj(s2, bioproj)
        s4 == merge_sra_xml(s3, sra_xml)
        s5 == merge_geo(s4, geo)
        s6 == merge_ffq(s5, ffq)
    IN  (IF df_empty(ena) THEN <<>>
         ELSE << [source |-> "runinfo", key |-> "run_accession", suffix |-> "_sra",
                  right |-> df_rename(runinfo, "Run", "run_accession"),
                  before |-> s0, after |-> s1] >>)
        \o << [source |-> "bios", key |-> "BioSample", suffix |-> "_bs",
               right |-> bios, before |-> s1, after |-> s2],
              [source |-> "bioproj", key |-> "BioProject", suffix |-> "_bp",
               right |-> bioproj, before |-> s2, after |-> s3],
              [source |-> "sra_xml", key |-> "run_accession", suffix |-> "_xml",
               right |-> sra_xml, before |-> s3, after |-> s4],
              [source |-> "ffq", key |-> "run_accession", suffix |-> "_ffq",
               right |-> ffq, before |-> s5, after |-> s6] >>

\* main of merge_metadata_cancer_classification.py
main_cancer_classification(src) ==
    LET runinfo == load_source(src.runinfo)
        ena == load_source(src.ena)
        bios == load_source(src.bios)
        bioproj == load_source(src.bioproj)
        sra_xml == load_source(src.sra_xml)
        geo == load_source(src.geo)
        ffq == load_source(src.ffq)
        s4 == merge_secondary(seed_and_runinfo(ena, runinfo), bios, bioproj, sra_xml)
        s5 == merge_geo(s4, geo)
        s6 == merge_ffq(s5, ffq)
        s7 == reorder(s6, cancer_classification_cols)
        s8 == remove_duplicates(s7)
    IN  IF df_empty(ena) /\ df_empty(runinfo) THEN Returned ELSE to_csv(s8)

\* main of merge_metadata_maximum.py
main_maximum(src) ==
    LET runinfo == load_source(src.runinfo)
        ena == load_source(src.ena)
        bios == load_source(src.bios)
        bioproj == load_source(src.bioproj)
        sra_xml == load_source(src.sra_xml)
        geo == load_source(src.geo)
        ffq == load_source(src.ffq)
        s4 == merge_secondary(seed_and_runinfo(ena, runinfo), bios, bioproj, sra_xml)
        s5 == merge_geo(s4, geo)
        s6 == merge_ffq(s5, ffq)
        s7 == remove_duplicates(s6)
        s8 == reorder(s7, important_cols)
    IN  IF df_empty(ena) /\ df_empty(runinfo) THEN Returned ELSE to_csv(s8)

\* the GEO step of merge_metadata_enhanced.py (lines 234-243): the lambda of
\* line 240 calls x.values(), the array attribute of a Series, which raises
\* TypeError as soon as it is evaluated for a GEO row
geo_step_enhanced(st, geo) ==
    IF st.status = "ok" /\ ~df_empty(geo) /\ has_col(st.t, "study_title")
       /\ st.t.rows # <<>>
    THEN Raised ELSE st

\* main of merge_metadata_enhanced.py
main_enhanced(src) ==
    LET runinfo == load_source(src.runinfo)
        ena == load_source(src.ena)
        bios == load_source(src.bios)
        bioproj == load_source(src.bioproj)
        sra_xml == load_source(src.sra_xml)
        geo == load_source(src.geo)
        ffq == load_source(src.ffq)
        s0 == IF ~df_empty(ena) THEN Ok(ena) ELSE Ok(EmptyFrame)
        s1 == IF ~df_empty(runinfo)
              THEN try_merge(s0, df_rename(runinfo, "Run", "run_accession"),
                             "run_accession", "_sra", "outer")
              ELSE s0
        s4 == merge_secondary(s1, bios, bioproj, sra_xml)
        s5 == geo_step_enhanced(s4, geo)
        s6 == merge_ffq(s5, ffq)
        s7 == reorder(s6, enhanced_prefer_cols)
        s8 == remove_duplicates(s7)
    IN  to_csv(s8)

(***************************************************************************)
(* Inputs of the reconciliation runs                                       *)
(***************************************************************************)
EnaTable ==
    [cols |-> <<"run_accession", "sample_accession", "study_title", "sample_title">>,
     rows |-> << <<<<"S","R","R","2">>, <<"S","A","M","E","A","2">>, <<"G","S","E","1"," ","e","s","o","p","h","a","g","u","s"," ","s","t","u","d","y">>, <<"H","e","L","a"," ","S","3">>>>,
                 <<<<"S","R","R","1">>, <<"S","A","M","E","A","1">>, <<"g","a","s","t","r","i","c"," ","c","o","h","o","r","t">>, <<"n","o","r","m","a","l">>>> >>]

EnaHeaderOnly ==
    [cols |-> <<"run_accession", "sample_accession", "study_title", "sample_title">>,
     rows |-> <<>>]

RunInfoTable ==
    [cols |-> <<"Run", "BioSample", "BioProject", "SampleName">>,
     rows |-> << <<<<"S","R","R","1">>, <<"S","A","M","N","1">>, <<"P","R","J","N","A","1">>, <<"s","1">>>>,
                 <<<<"S","R","R","3">>, <<"S","A","M","N","3">>, <<"P","R","J","N","A","1">>, <<"s","3">>>> >>]

\* a runinfo.csv that parses to a frame without the Run column
RunInfoNoKey ==
    [cols |-> <<"Error", "BioProject">>,
     rows |-> << <<<<"n","o"," ","r","e","c","o","r","d","s">>, <<"P","R","J","N","A","1">>>> >>]

BioSampleTable ==
    [cols |-> <<"BioSample", "disease", "biosample_title">>,
     rows |-> << <<<<"S","A","M","N","1">>, <<"D","y","s","p","l","a","s","i","a">>, <<"b","i","o","p","s","y">>>> >>]

BioProjectTable ==
    [cols |-> <<"BioProject", "project_title", "study_title">>,
     rows |-> << <<<<"P","R","J","N","A","1">>, <<"p","r","o","j","e","c","t">>, <<"G","S","E","2"," ","p","r","o","j","e","c","t"," ","s","t","u","d","y">>>> >>]

SraXmlTable ==
    [cols |-> <<"run_accession", "study_title", "library_name">>,
     rows |-> << <<<<"S","R","R","1">>, <<"x","m","l"," ","t","i","t","l","e">>, <<"l","i","b"," ","a">>>>,
                 <<<<"S","R","R","1">>, <<"x","m","l"," ","t","i","t","l","e">>, <<"l","i","b"," ","b">>>> >>]

SraXmlNoKey ==
    [cols |-> <<"accession", "library_name">>,
     rows |-> << <<<<"S","R","X","1">>, <<"l","i","b"," ","a">>>> >>]

GeoTable ==
    [cols |-> <<"gse", "title">>,
     rows |-> << <<<<"G","S","E","1">>, <<"g","e","o"," ","o","n","e">>>>, <<<<"G","S","E","2">>, NaN>>,
                 <<<<"G","S","E","1">>, <<"g","e","o"," ","o","n","e"," ","a","g","a","i","n">>>> >>]

FfqTable ==
    [cols |-> <<"run_accession", "library_name">>,
     rows |-> << <<<<"S","R","R","2">>, <<"f","f","q"," ","l","i","b">>>> >>]

SourceSets ==
    [ena : {MissingFile, UnparsableFile, File(EnaHeaderOnly), File(EnaTable)},
     runinfo : {MissingFile, File(RunInfoTable), File(RunInfoNoKey)},
     bios : {MissingFile, File(BioSampleTable)},
     bioproj : {MissingFile, File(BioProjectTable)},
     sra_xml : {MissingFile, File(SraXmlTable), File(SraXmlNoKey)},
     geo : {MissingFile, File(GeoTable)},
     ffq : {MissingFile, File(FfqTable)}]

NoSources ==
    [ena |-> MissingFile, runinfo |-> MissingFile, bios |-> MissingFile,
     bioproj |-> MissingFile, sra_xml |-> MissingFile, geo |-> MissingFile,
     ffq |-> MissingFile]

(***************************************************************************)
(* The table pass of cancer_classification.py (main) and the partition of  *)
(* its output by download_fastq_by_category.py (load_classified_metadata)  *)
(***************************************************************************)
\* classification_cols (lines 236-237), also the key order of the dictionary
\* classify_cancer_type returns (lines 193-201)
classification_cols ==
    <<"top_label", "is_cell_line", "is_bulk_sorted", "is_control",
      "adjacent_normal", "barrett_grade", "tissue_origin">>

\* the values classify_cancer_type assigns, as the text of a table cell
cell_text ==
    [v \in {"Unknown", "Tumor", "Cell line", "Pre-malignant", "Normal", "yes", "no",
            "unknown", "LGD", "HGD", "indefinite", "no dysplasia", "", "esophagus",
            "stomach", "intestine", "lung", "liver", "breast", "brain", "ovary",
            "prostate", "pancreas"} |->
        CASE v = "Unknown" -> <<"U","n","k","n","o","w","n">>
          [] v = "Tumor" -> <<"T","u","m","o","r">>
          [] v = "Cell line" -> <<"C","e","l","l"," ","l","i","n","e">>
          [] v = "Pre-malignant" -> <<"P","r","e","-","m","a","l","i","g","n","a","n","t">>
          [] v = "Normal" -> <<"N","o","r","m","a","l">>
          [] v = "yes" -> <<"y","e","s">>
          [] v = "no" -> <<"n","o">>
          [] v = "unknown" -> <<"u","n","k","n","o","w","n">>
          [] v = "LGD" -> <<"L","G","D">>
          [] v = "HGD" -> <<"H","G","D">>
          [] v = "indefinite" -> <<"i","n","d","e","f","i","n","i","t","e">>
          [] v = "no dysplasia" -> <<"n","o"," ","d","y","s","p","l","a","s","i","a">>
          [] v = "" -> <<>>
          [] v = "esophagus" -> <<"e","s","o","p","h","a","g","u","s">>
          [] v = "stomach" -> <<"s","t","o","m","a","c","h">>
          [] v = "intestine" -> <<"i","n","t","e","s","t","i","n","e">>
          [] v = "lung" -> <<"l","u","n","g">>
          [] v = "liver" -> <<"l","i","v","e","r">>
          [] v = "breast" -> <<"b","r","e","a","s","t">>
          [] v = "brain" -> <<"b","r","a","i","n">>
          [] v = "ovary" -> <<"o","v","a","r","y">>
          [] v = "prostate" -> <<"p","r","o","s","t","a","t","e">>
          [] v = "pancreas" -> <<"p","a","n","c","r","e","a","s">>]

\* the row handed to classify_cancer_type by df.iterrows(): column -> str(value)
row_of(t, i) ==
    [c \in {t.cols[k] : k \in 1..Len(t.cols)} |-> value_str(t.rows[i][col_index(t, c)])]

\* pd.DataFrame(classifications) (lines 222-232): one row of seven cells per
\* input row; no column at all when there was no row
classification_df(t, ref, order) ==
    IF t.rows = <<>> THEN EmptyFrame
    ELSE [cols |-> classification_cols,
          rows |-> [i \in 1..Len(t.rows) |->
                       LET c == classify_cancer_type(row_of(t, i), ref, order)
                       IN  [k \in 1..Len(classification_cols) |->
                               cell_text[c[classification_cols[k]]]]]]

\* pd.concat([a, b], axis=1) of two frames with the same index
concat_columns(a, b) ==
    IF b.cols = <<>> THEN a
    ELSE [cols |-> a.cols \o b.cols,
          rows |-> [i \in 1..Len(a.rows) |-> a.rows[i] \o b.rows[i]]]

\* main of cancer_classification.py from line 220 on: classify every row,
\* append the seven columns, move them to the front, write the table.
\* result_df[...] raises KeyError when a selected name is no column.
main_classification(t, ref, order) ==
    LET result_df0 == concat_columns(t, classification_df(t, ref, order))
        other_cols == SelectSeq(result_df0.cols, LAMBDA c : ~InList(c, classification_cols))
    IN  IF \E k \in 1..Len(classification_cols) : ~has_col(result_df0, classification_cols[k])
        THEN Crashed
        ELSE Written(df_select(result_df0, classification_cols \o other_cols))

\* the strings pd.read_csv reads as a missing value
na_values ==
    {<<>>, <<"n","a","n">>, <<"N","a","N">>, <<"N","A">>, <<"N","/","A">>, <<"n","/","a">>, <<"N","U","L","L">>, <<"n","u","l","l">>, <<"N","o","n","e">>,
     <<"#","N","/","A">>, <<"<","N","A",">">>, <<"-","n","a","n">>, <<"-","N","a","N">>, <<"#","N","A">>, <<"1",".","#","I","N","D">>, <<"1",".","#","Q","N","A","N">>,
     <<"-","1",".","#","I","N","D">>, <<"-","1",".","#","Q","N","A","N">>, <<"#","N","/","A"," ","N","/","A">>}

occurrence_suffix == <<".1", ".2", ".3", ".4", ".5", ".6", ".7", ".8", ".9">>

\* what pd.read_csv(sep='\t') reads back from the file result_df.to_csv(sep='\t',
\* index=False) wrote: a repeated header gets .1, .2, ...; a missing value is
\* written as the empty field; an empty or NA-like field is read as missing
read_written_tsv(t) ==
    [cols |-> [i \in 1..Len(t.cols) |->
                  LET n == Cardinality({j \in 1..(i - 1) : t.cols[j] = t.cols[i]})
                  IN  IF n = 0 THEN t.cols[i] ELSE t.cols[i] \o occurrence_suffix[n]],
     rows |-> [r \in 1..Len(t.rows) |->
                  [i \in 1..Len(t.cols) |->
                      IF t.rows[r][i] = NaN \/ t.rows[r][i] \in na_values
                      THEN NaN ELSE t.rows[r][i]]]]

\* load_classified_metadata, line 185
categories == <<<<"T","u","m","o","r">>, <<"P","r","e","-","m","a","l","i","g","n","a","n","t">>, <<"N","o","r","m","a","l">>, <<"C","e","l","l","_","l","i","n","e">>, <<"U","n","k","n","o","w","n">>>>

\* a partition that keeps the two spellings of the cell-line label apart
category_mask_exact(category, label) == label = category

\* lines 186-190: the rows of one category
category_mask(category, label) ==
    IF category = <<"C","e","l","l","_","l","i","n","e">>
    THEN label = <<"C","e","l","l"," ","l","i","n","e">> \/ label = <<"C","e","l","l","_","l","i","n","e">>
    ELSE label = category

NoPartition == [status |-> "idle", parts |-> <<>>]

\* load_classified_metadata (lines 175-196): for every category the
\* run_accession values, missing ones dropped, of the rows whose top_label is
\* the category; df['top_label'] raises KeyError when the column is absent
load_classified_metadata(t) ==
    IF ~has_col(t, "top_label") \/ ~has_col(t, "run_accession")
    THEN [status |-> "raised", parts |-> <<>>]
    ELSE LET label(r) == t.rows[r][col_index(t, "top_label")]
             srr(r) == t.rows[r][col_index(t, "run_accession")]
             srr_ids(category) ==
                 LET hit == SelectSeq(indices(t.rows),
                                LAMBDA r : category_mask(category, label(r)) /\ srr(r) # NaN)
                 IN  [k \in 1..Len(hit) |-> srr(hit[k])]
         IN  [status |-> "ok",
              parts |-> [k \in 1..Len(categories) |->
                            [category |-> categories[k], srr_ids |-> srr_ids(categories[k])]]]

\* no table pass in this run
TableIdle ==
    /\ df = EmptyFrame
    /\ result_df = IdleOutcome
    /\ classified = EmptyFrame
    /\ category_srr = NoPartition

(***************************************************************************)
(* The FASTQ download (scripts/download_fastq_by_category.py)              *)
(***************************************************************************)
\* download_srr's default retry_count (line 52); download_category passes no other
retry_count == 3

\* what one pass of the loop body met: how prefetch ended, whether the .sra file is
\* there afterwards, how fastq-dump ended
NoAttempt == [prefetch |-> "not_run", sra_exists |-> FALSE, fastq_dump |-> "not_run"]

AttemptOutcomes ==
    { [prefetch |-> p, sra_exists |-> FALSE, fastq_dump |-> "not_run"] :
        p \in {"denied", "failed", "timeout", "ok"} }
    \cup { [prefetch |-> "ok", sra_exists |-> TRUE, fastq_dump |-> d] :
             d \in {"ok", "failed", "timeout"} }

\* lines 58-126: the try block of one attempt; "retry" stands for both except
\* clauses, which end in continue
run_attempt_retry_denied(o) ==
    IF o.prefetch \in {"timeout", "denied"} THEN "retry"
    ELSE IF o.prefetch = "failed" THEN "retry"
    ELSE IF o.sra_exists
         THEN (IF o.fastq_dump = "ok" THEN "True" ELSE "retry")
         ELSE "False"

run_attempt(o) ==
    IF o.prefetch = "timeout" THEN "retry"
    ELSE IF o.prefetch = "denied" THEN "False"
    ELSE IF o.prefetch = "failed" THEN "retry"
    ELSE IF o.sra_exists
         THEN (IF o.fastq_dump = "ok" THEN "True" ELSE "retry")
         ELSE "False"

\* executor.submit(self.download_srr, srr_id, category), line 156
submitted_future(srr_id) ==
    [srr_id |-> srr_id, state |-> "queued", attempt |-> 0, last |-> NoAttempt,
     value |-> "none", collected |-> FALSE]

\* lines 57-129: one pass of for attempt in range(retry_count), and the return
\* False after the loop when that pass was the last one
download_srr(f, o) ==
    LET r == run_attempt(o)
        n == f.attempt + 1
        v == IF r = "retry" THEN (IF n < retry_count THEN "none" ELSE "False") ELSE r
    IN  [f EXCEPT !.attempt = n, !.last = o, !.value = v,
                  !.state = IF v = "none" THEN "running" ELSE "done"]

\* srr_list[:max_downloads] under if max_downloads (lines 137-138); None is 0
truncate(srr_list, max_downloads) ==
    IF max_downloads # 0 /\ max_downloads < Len(srr_list)
    THEN SubSeq(srr_list, 1, max_downloads)
    ELSE srr_list

\* a bare return gives None (line 135); line 173 gives a pair
None == <<>>

\* lines 163-170
count_result(d, f) ==
    IF f.value = "True"
    THEN [d EXCEPT !.successful = @ + 1]
    ELSE [d EXCEPT !.failed = @ + 1]

\* the pool runs at most max_workers calls at once and takes queued calls in
\* submission order (line 154)
may_run(fs, i, max_workers) ==
    \/ fs[i].state = "running"
    \/ /\ fs[i].state = "queued"
       /\ Cardinality({ j \in 1..Len(fs) : fs[j].state = "running" }) < max_workers
       /\ \A j \in 1..(i - 1) : fs[j].state # "queued"

\* no download in this run
NoArgs == [categories |-> <<>>, category_srr |-> <<>>, max_per_category |-> 0, workers |-> 1]

MainStart ==
    [pc |-> "main", next |-> 1, successful |-> 0, failed |-> 0,
     total_successful |-> 0, total_failed |-> 0, returned |-> <<>>, submitted |-> <<>>]

DownloadIdle ==
    /\ args = NoArgs
    /\ futures = <<>>
    /\ download = [MainStart EXCEPT !.pc = "idle"]

\* category_srr is a list of <<category, srr_list>> entries, one per key
has_category(by_category, category) ==
    \E k \in 1..Len(by_category) : by_category[k][1] = category

srr_list_of(by_category, category) ==
    by_category[CHOOSE k \in 1..Len(by_category) : by_category[k][1] = category][2]

\* main, lines 219-229, entering download_category (lines 133-158)
enter_category(a, d) ==
    LET category == a.categories[d.next]
        srr_list == srr_list_of(a.category_srr, category)
        srrs == truncate(srr_list, a.max_per_category)
    IN  IF ~has_category(a.category_srr, category)
        THEN [download |-> [d EXCEPT !.next = @ + 1], futures |-> <<>>]
        ELSE IF srr_list = <<>>
        THEN [download |-> [d EXCEPT !.pc = "crashed",
                                     !.returned = Append(@, None),
                                     !.submitted = Append(@, 0)],
              futures |-> <<>>]
        ELSE [download |-> [d EXCEPT !.pc = "category", !.successful = 0, !.failed = 0,
                                     !.submitted = Append(@, Len(srrs))],
              futures |-> [i \in 1..Len(srrs) |-> submitted_future(srrs[i])]]

\* line 173 and main, lines 221-227
return_category(d) ==
    [d EXCEPT !.pc = "main", !.next = @ + 1,
              !.returned = Append(@, <<d.successful, d.failed>>),
              !.total_successful = @ + d.successful,
              !.total_failed = @ + d.failed]

(***************************************************************************)
(* The complete pipeline (scripts/cancer_analysis_pipeline.py)             *)
(***************************************************************************)
StepOrder == <<"search", "metadata", "classification", "download">>

\* main, lines 239-241: --test overrides both limits
effective_args(a) ==
    IF a.test THEN [a EXCEPT !.max_results = 50, !.max_per_category = 5] ELSE a

\* the command line each step builds (lines 63-68, 88-92, 110-114, 132-140)
step_cmd(step, a) ==
    IF step = "search" THEN <<"cancer_type_search.py", "-m", a.max_results>>
    ELSE IF step = "metadata" THEN <<"comprehensive_metadata_pipeline.sh">>
    ELSE IF step = "classification" THEN <<"cancer_classification.py">>
    ELSE IF a.max_per_category # 0
         THEN <<"download_fastq_by_category.py", "-w", 4,
                "--max-per-category", a.max_per_category>>
         ELSE <<"download_fastq_by_category.py", "-w", 4>>

\* cancer_type_search.py, main (lines 238-254): what the search did
SearchOutcomes == {"runs", "no_runs", "error"}

\* the exit status of cancer_type_search.py: a bare return (line 243) and the
\* end of main both exit 0, an uncaught error exits 1
search_returncode(found) == IF found = "error" THEN 1 ELSE 0

\* lines 246-251: the list file is written only when runs were found
search_writes_file(found) == found = "runs"

PipelineStart(a, stale) ==
    [pc |-> "step", args |-> effective_args(a), started |-> <<>>, results |-> <<>>,
     commands |-> <<>>, srr_list_file |-> stale, handed_over |-> "none",
     summary |-> "none", returned |-> "none"]

PipelineIdle ==
    pipeline = [PipelineStart([test |-> FALSE, max_results |-> 1000, max_per_category |-> 0,
                               skip_download |-> FALSE], FALSE) EXCEPT !.pc = "idle"]

\* which step run_complete_pipeline starts next, "summary" after the last one
\* (lines 158-186)
next_step_with_download(p) ==
    LET n == Len(p.started) + 1
    IN  IF n > Len(StepOrder) THEN "summary" ELSE StepOrder[n]

next_step(p) ==
    LET n == Len(p.started) + 1
    IN  IF n > Len(StepOrder) \/ (StepOrder[n] = "download" /\ p.args.skip_download)
        THEN "summary"
        ELSE StepOrder[n]

\* stepN: subprocess.run, then return False on a non-zero status (lines 73-78,
\* 97-102, 119-124, 145-151); run_complete_pipeline returns False when the
\* step did (lines 159-161, 166-168, 173-175, 181-183)
run_step(p, step, returncode) ==
    LET ok == returncode = 0
    IN  [p EXCEPT !.started = Append(@, step),
                  !.commands = Append(@, step_cmd(step, p.args)),
                  !.results = Append(@, ok),
                  !.pc = IF ok THEN "step" ELSE "returned",
                  !.returned = IF ok THEN "none" ELSE "False"]

\* step1_search_cancer_type (lines 56-78) with the search script it runs
step1_search_cancer_type(p, found) ==
    [run_step(p, "search", search_returncode(found))
        EXCEPT !.srr_list_file = p.srr_list_file \/ search_writes_file(found)]

\* step2_collect_metadata (lines 80-102) is handed srr_list_file (line 163)
step2_collect_metadata(p, returncode) ==
    [run_step(p, "metadata", returncode)
        EXCEPT !.handed_over = IF p.srr_list_file THEN "exists" ELSE "missing"]

\* create_pipeline_summary (lines 186-189, 191-222): it may raise, reading the
\* classified table
create_pipeline_summary(p, written) ==
    [p EXCEPT !.summary = IF written THEN "written" ELSE "raised",
              !.pc = "returned",
              !.returned = IF written THEN "True" ELSE "raised"]

(***************************************************************************)
(* Inputs: the reference files and the rows the runs are checked on        *)
(***************************************************************************)
MaxRefRows == 2

RefRowPool ==
    { [CellLineName |-> TextCell(<<"H","e","L","a">>), StrippedCellLineName |-> TextCell(<<"H","E","L","A">>)],
      [CellLineName |-> TextCell(<<" ","M","C","F","7"," ">>), StrippedCellLineName |-> NaCell],
      [CellLineName |-> TextCell(<<"L","S">>), StrippedCellLineName |-> TextCell(<<"L","S">>)],
      [CellLineName |-> TextCell(<<"S","K","-","N","-","B","E","(","2",")">>),
       StrippedCellLineName |-> TextCell(<<"S","K","N","B","E","2">>)] }

ReferenceFiles ==
    { [readable |-> FALSE, rows |-> {}] }
    \cup { [readable |-> TRUE, rows |-> R] :
           R \in { Q \in SUBSET RefRowPool : Cardinality(Q) <= MaxRefRows } }

\* (Tumor, is_tumor) as str() gives them: "" is a missing column, "nan" a NaN cell
FlagValues ==
    { <<<<>>, <<>>>>, <<<<"n","a","n">>, <<>>>>, <<<<"Y","e","s">>, <<>>>>, <<<<"1">>, <<>>>>,
      <<<<"n","o">>, <<"T","R","U","E">>>>, <<<<"n","o">>, <<>>>> }

BodySiteValues == { <<>>, <<"S","t","o","m","a","c","h">> }

DiseaseValues ==
    { <<>>, <<"n","a","n">>, <<"D","y","s","p","l","a","s","i","a">>, <<"M","e","l","a","n","o","m","a">>, <<"a","d","j","a","c","e","n","t"," ","n","o","r","m","a","l"," ","t","i","s","s","u","e"," ","s","a","m","p","l","e">> }

TitleValues ==
    { <<>>,
      <<"p","a","s","s","a","g","e","d"," ","c","u","l","t","u","r","e">>,
      <<"c","e","l","l","s"," ","a","r","e"," ","c","u","l","t","u","r","e","d">>,
      <<"c","e","l","l"," ","l","i","n","e"," ","l","s"," ","u","s","e","d">>,
      <<"a","d","j","a","c","e","n","t"," ","t","i","s","s","u","e">>,
      <<"H","e","L","a"," ","S","3">>,
      <<"h","e","l","a","c","y","t","o","n">>,
      <<"S","K","-","N","-","B","E","(","2",")"," ","u","s","e","d">>,
      <<"m","c","f","7"," ","c","a","r","c","i","n","o","m","a">>,
      <<"h","e","a","l","t","h","y"," ","c","o","n","t","r","o","l">>,
      <<"s","o","r","t","e","d"," ","c","d","4"," ","e","s","o","p","h","a","g","e","a","l">>,
      <<"b","a","r","r","e","t","t"," ","l","g","d"," ","h","g","d">>,
      <<"b","a","r","r","e","t","t"," ","n","o"," ","d","y","s","p","l","a","s","i","a">>,
      <<"i","n","d","e","f","i","n","i","t","e"," ","f","o","r"," ","d","y","s","p","l","a","s","i","a"," ","h","g","d">> }

InputRows ==
    { [Tumor |-> f[1], is_tumor |-> f[2], disease |-> d, sample_title |-> t, Body_Site |-> b] :
      f \in FlagValues, d \in DiseaseValues, t \in TitleValues, b \in BodySiteValues }

(***************************************************************************)
(* The classification run: main() loads the reference, then classifies     *)
(***************************************************************************)
Init ==
    /\ pc = "load"
    /\ ref_file \in ReferenceFiles
    /\ cell_line_names = NoneRef
    /\ row \in InputRows
    /\ all_text = <<>>
    /\ primary = InitialClassification
    /\ result = InitialClassification
    /\ script = "none"
    /\ sources = NoSources
    /\ outcome = IdleOutcome
    /\ TableIdle
    /\ DownloadIdle
    /\ PipelineIdle

\* main, line 213
LoadReference ==
    /\ pc = "load"
    /\ cell_line_names' = load_cell_line_reference(ref_file)
    /\ pc' = "classify"
    /\ UNCHANGED <<ref_file, row, all_text, primary, result, script, sources, outcome,
                   df, result_df, classified, category_srr,
                   args, futures, download, pipeline>>

\* main, line 225: one call of classify_cancer_type
Classify ==
    /\ pc = "classify"
    /\ \E order \in IterationOrders(cell_line_names.names) :
         LET text == build_all_text(row)
             c == primary_cascade(row, text, cell_line_names, order)
         IN  /\ all_text' = text
             /\ primary' = c
             /\ result' = secondary_rules(c, row, text)
    /\ pc' = "done"
    /\ UNCHANGED <<ref_file, cell_line_names, row, script, sources, outcome,
                   df, result_df, classified, category_srr,
                   args, futures, download, pipeline>>

Next == LoadReference \/ Classify

Spec == Init /\ [][Next]_vars

(***************************************************************************)
(* Properties of the classification run                                    *)
(***************************************************************************)
Labels == {"Tumor", "Pre-malignant", "Normal", "Cell line", "Unknown"}

\* a flag column holds "yes", "true" or "1" in some letter case
HoldsTumorLiteral(v) == str_lower(v) \in {<<"y","e","s">>, <<"t","r","u","e">>, <<"1">>}

FlagSet(r) == HoldsTumorLiteral(r.Tumor) \/ HoldsTumorLiteral(r.is_tumor)

\* name occurs in text as a token of its own: no word character next to it
StandaloneToken(name, text) ==
    \E i \in 0..(Len(text) - Len(name)) :
        /\ \A j \in 1..Len(name) : text[i + j] = name[j]
        /\ (i = 0 \/ ~IsWordChar(text[i]))
        /\ (i + Len(name) = Len(text) \/ ~IsWordChar(text[i + Len(name) + 1]))

HasGenericCellLineWord(text) ==
    \E k \in {<<"c","e","l","l"," ","l","i","n","e">>, <<"c","u","l","t","u","r","e">>, <<"p","a","s","s","a","g","e","d">>, <<"c","e","l","l","l","i","n","e">>, <<"c","l">>, <<"l","i","n","e">>} :
        Contains(text, k)

HasAdjacentWord(text) ==
    \E k \in {<<"a","d","j","a","c","e","n","t">>, <<"m","a","r","g","i","n","a","l"," ","n","o","r","m","a","l">>, <<"p","a","i","r","e","d"," ","n","o","r","m","a","l">>,
              <<"s","u","r","r","o","u","n","d","i","n","g"," ","n","o","r","m","a","l">>, <<"n","o","r","m","a","l"," ","a","d","j","a","c","e","n","t">>, <<"a","d","j","a","c","e","n","t"," ","n","o","r","m","a","l">>} :
        Contains(text, k)

HasGradeToken(text) ==
    \E k \in {<<"l","g","d">>, <<"l","o","w"," ","g","r","a","d","e"," ","d","y","s","p","l","a","s","i","a">>, <<"h","g","d">>, <<"h","i","g","h"," ","g","r","a","d","e"," ","d","y","s","p","l","a","s","i","a">>,
              <<"i","n","d","e","f","i","n","i","t","e">>, <<"n","o"," ","d","y","s","p","l","a","s","i","a">>} :
        Contains(text, k)

\* every column of the row is missing, empty or "nan"
NoUsableText(r) == \A col \in DOMAIN r : r[col] = <<>> \/ str_lower(r[col]) = <<"n","a","n">>

\* C1: every call of classify_cancer_type returns, whatever the row and the
\* reference argument (None, the empty set, a non-empty set), and the
\* top_label it returns is one of the five labels.
C1_LabelTotality ==
    /\ pc = "classify" =>
           \A order \in IterationOrders(cell_line_names.names) :
               classify_cancer_type(row, cell_line_names, order).top_label \in Labels
    /\ pc = "done" => result.top_label \in Labels /\ result.top_label # ""

C1_Witness ==
    /\ pc = "done"
    /\ ~cell_line_names.none /\ cell_line_names.names # {}
    /\ result.top_label = "Cell line"

\* C2: a row whose Tumor or is_tumor column holds yes/true/1 in any letter
\* case is labelled Tumor, whatever the blob and the reference set hold.
C2_ExplicitFlagWins == pc = "done" /\ FlagSet(row) => result.top_label = "Tumor"

C2_Witness ==
    /\ pc = "done"
    /\ row.Tumor = <<"Y","e","s">>
    /\ Contains(all_text, <<"d","y","s","p","l","a","s","i","a">>)
    /\ \E name \in cell_line_names.names : StandaloneToken(name, all_text)
    /\ result.top_label = "Tumor"

\* C3: with the reference set None or empty, a row without explicit tumor
\* flag whose blob holds generic cell-line vocabulary is labelled Cell line
\* with is_cell_line set.
C3_GracefulDegradation ==
    (/\ pc = "done"
     /\ cell_line_names.none \/ cell_line_names.names = {}
     /\ ~FlagSet(row)
     /\ HasGenericCellLineWord(all_text))
    => result.top_label = "Cell line" /\ result.is_cell_line = "yes"

\* C4: a reference entry is reported as found in the blob exactly when it
\* occurs there as a token of its own, never when it occurs only inside a
\* larger token.
C4_WholeWordMatch ==
    pc = "done" =>
        \A name \in cell_line_names.names :
            entry_matches(name, all_text) <=> StandaloneToken(name, all_text)

\* C5: adjacent_normal is set exactly when the blob holds adjacent-normal
\* vocabulary; the rule turns top_label into Normal when the label was still
\* Unknown after stages 1-6 and leaves every other label as it was; the blob
\* "adjacent normal tissue sample" gives Normal with adjacent_normal set.
C5_AdjacentNormal ==
    pc = "done" =>
        /\ HasAdjacentWord(all_text) =>
               /\ result.adjacent_normal = "yes"
               /\ primary.top_label = "Unknown" => result.top_label = "Normal"
               /\ primary.top_label # "Unknown" => result.top_label = primary.top_label
        /\ ~HasAdjacentWord(all_text) =>
               result.adjacent_normal = "no" /\ result.top_label = primary.top_label
        /\ all_text = <<"a","d","j","a","c","e","n","t"," ","n","o","r","m","a","l"," ","t","i","s","s","u","e"," ","s","a","m","p","l","e">> =>
               result.top_label = "Normal" /\ result.adjacent_normal = "yes"

C5_Witness ==
    /\ pc = "done"
    /\ HasAdjacentWord(all_text)
    /\ primary.top_label = "Unknown"
    /\ result.top_label = "Normal"

C5_WitnessKept ==
    /\ pc = "done"
    /\ HasAdjacentWord(all_text)
    /\ primary.top_label = "Pre-malignant"
    /\ result.top_label = "Pre-malignant"

\* the label the fixed stage order gives a blob without explicit tumor flag
FirstMatchingStage(text, ref) ==
    IF (\E name \in ref.names : entry_matches(name, text)) \/ HasGenericCellLineWord(text)
        THEN "Cell line"
    ELSE IF any_keyword(text, pre_malignant_keywords) THEN "Pre-malignant"
    ELSE IF any_keyword(text, normal_keywords) THEN "Normal"
    ELSE IF any_keyword(text, cancer_keywords) THEN "Tumor"
    ELSE "Unknown"

\* C6: without explicit tumor flag the label after stages 1-6 is the label of
\* the first matching stage in the order cell line (reference match or
\* generic keywords), pre-malignant, normal, cancer, else Unknown.
C6_FirstStageWins ==
    pc = "done" /\ ~FlagSet(row) =>
        primary.top_label = FirstMatchingStage(all_text, cell_line_names)

\* C7: a row labelled Pre-malignant whose blob holds no grade token has
\* barrett_grade "unknown".
C7_BarrettDefault ==
    pc = "done" /\ result.top_label = "Pre-malignant" /\ ~HasGradeToken(all_text)
    => result.barrett_grade = "unknown"

C7_Witness ==
    /\ pc = "done"
    /\ result.top_label = "Pre-malignant"
    /\ ~HasGradeToken(all_text)
    /\ result.barrett_grade = "unknown"

\* C8: a row without usable text is classified Unknown with every flag "no",
\* barrett_grade "unknown" and tissue_origin "unknown", for every reference.
C8_NoUsableText ==
    pc = "done" /\ NoUsableText(row) =>
        result = [top_label |-> "Unknown", is_cell_line |-> "no", is_bulk_sorted |-> "no",
                  is_control |-> "no", adjacent_normal |-> "no",
                  barrett_grade |-> "unknown", tissue_origin |-> "unknown"]

C8_Witness ==
    /\ pc = "done"
    /\ NoUsableText(row)
    /\ row.Tumor = <<"n","a","n">>
    /\ cell_line_names.names # {}
    /\ result.top_label = "Unknown"

\* C9: the returned dictionary is the same for every order in which the loop
\* of line 92 can visit the reference set.
C9_OrderIndependent ==
    pc = "done" =>
        \A order \in IterationOrders(cell_line_names.names) :
            classify_cancer_type(row, cell_line_names, order) = result

C9_Witness ==
    /\ pc = "done"
    /\ result.is_cell_line = "yes"
    /\ ~HasGenericCellLineWord(all_text)
    /\ \E a, b \in cell_line_names.names :
           entry_matches(a, all_text) /\ ~entry_matches(b, all_text)
\* the grade tokens in the order the claim gives them
HasLgdToken(text) == Contains(text, <<"l","g","d">>) \/ Contains(text, <<"l","o","w"," ","g","r","a","d","e"," ","d","y","s","p","l","a","s","i","a">>)

HasHgdToken(text) == Contains(text, <<"h","g","d">>) \/ Contains(text, <<"h","i","g","h"," ","g","r","a","d","e"," ","d","y","s","p","l","a","s","i","a">>)

\* the value of the first grade whose token occurs, the fourth grade written as
\* given
FirstGrade(text, fourth) ==
    IF HasLgdToken(text) THEN "LGD"
    ELSE IF HasHgdToken(text) THEN "HGD"
    ELSE IF Contains(text, <<"i","n","d","e","f","i","n","i","t","e">>) THEN "indefinite"
    ELSE IF Contains(text, <<"n","o"," ","d","y","s","p","l","a","s","i","a">>) THEN fourth
    ELSE "unknown"

\* C20 as stated: for a record classified Pre-malignant barrett_grade is the
\* value of the first grade whose token occurs, checking LGD, HGD, indefinite,
\* no-dysplasia in that order, and is a member of the enum
\* LGD | HGD | indefinite | no-dysplasia | unknown.
C20_BarrettGradeEnum ==
    pc = "done" /\ result.top_label = "Pre-malignant"
        => /\ result.barrett_grade = FirstGrade(all_text, "no-dysplasia")
           /\ result.barrett_grade \in {"LGD", "HGD", "indefinite", "no-dysplasia", "unknown"}

\* C20 (amended): the same order, the fourth value being the string
\* "no dysplasia", written with a space: barrett_grade is a member of
\* LGD | HGD | indefinite | no dysplasia | unknown.
C20_BarrettGradeOrder ==
    pc = "done" /\ result.top_label = "Pre-malignant"
        => /\ result.barrett_grade = FirstGrade(all_text, "no dysplasia")
           /\ result.barrett_grade \in {"LGD", "HGD", "indefinite", "no dysplasia", "unknown"}

\* a Pre-malignant record whose only grade token is "no dysplasia"
C20_Witness ==
    /\ pc = "done"
    /\ result.top_label = "Pre-malignant"
    /\ ~HasLgdToken(all_text) /\ ~HasHgdToken(all_text)
    /\ ~Contains(all_text, <<"i","n","d","e","f","i","n","i","t","e">>)
    /\ Contains(all_text, <<"n","o"," ","d","y","s","p","l","a","s","i","a">>)
    /\ result.barrett_grade = "no dysplasia"

\* C21: barrett_grade is present in every result and differs from "unknown"
\* only when top_label is Pre-malignant, also when the blob of a record
\* labelled otherwise holds grade tokens.
C21_GradeOnlyPreMalignant ==
    pc = "done"
        => /\ "barrett_grade" \in DOMAIN result
           /\ result.top_label # "Pre-malignant" => result.barrett_grade = "unknown"

\* a record labelled otherwise whose blob holds a grade token
C21_Witness ==
    /\ pc = "done"
    /\ result.top_label \in {"Tumor", "Cell line"}
    /\ HasGradeToken(all_text)
    /\ result.barrett_grade = "unknown"

\* the blob holds a keyword of the sorted/purified vocabulary
HasBulkSortedWord(text) ==
    \E k \in {<<"s","o","r","t","e","d">>, <<"p","u","r","i","f","i","e","d">>, <<"i","s","o","l","a","t","e","d">>, <<"e","n","r","i","c","h","e","d">>, <<"f","a","c","s">>, <<"m","a","g","n","e","t","i","c">>,
              <<"c","d","4">>, <<"c","d","8">>, <<"t"," ","c","e","l","l">>, <<"b"," ","c","e","l","l">>, <<"m","o","n","o","c","y","t","e">>, <<"m","a","c","r","o","p","h","a","g","e">>} :
        Contains(text, k)

\* C22: is_bulk_sorted is set exactly when the blob holds a keyword of the
\* sorted/purified vocabulary, whichever primary stage assigned the label and
\* whatever the reference set.
C22_BulkSortedUnconditional ==
    pc = "done" => (result.is_bulk_sorted = "yes" <=> HasBulkSortedWord(all_text))

\* a record labelled by the explicit flag, or as a cell line, that is bulk sorted
C22_Witness ==
    /\ pc = "done"
    /\ result.top_label \in {"Tumor", "Cell line"}
    /\ HasBulkSortedWord(all_text)
    /\ result.is_bulk_sorted = "yes"

\* the fixed table of tissue entries, in order
TissueTable ==
    << [name |-> "esophagus", keywords |-> {<<"e","s","o","p","h","a","g","u","s">>, <<"e","s","o","p","h","a","g","e","a","l">>}],
       [name |-> "stomach", keywords |-> {<<"s","t","o","m","a","c","h">>, <<"g","a","s","t","r","i","c">>}],
       [name |-> "intestine", keywords |-> {<<"i","n","t","e","s","t","i","n","e">>, <<"i","n","t","e","s","t","i","n","a","l">>, <<"c","o","l","o","n">>}],
       [name |-> "lung", keywords |-> {<<"l","u","n","g">>, <<"p","u","l","m","o","n","a","r","y">>}],
       [name |-> "liver", keywords |-> {<<"l","i","v","e","r">>, <<"h","e","p","a","t","i","c">>}],
       [name |-> "breast", keywords |-> {<<"b","r","e","a","s","t">>, <<"m","a","m","m","a","r","y">>}],
       [name |-> "brain", keywords |-> {<<"b","r","a","i","n">>, <<"c","e","r","e","b","r","a","l">>}],
       [name |-> "ovary", keywords |-> {<<"o","v","a","r","y">>, <<"o","v","a","r","i","a","n">>}],
       [name |-> "prostate", keywords |-> {<<"p","r","o","s","t","a","t","e">>, <<"p","r","o","s","t","a","t","i","c">>}],
       [name |-> "pancreas", keywords |-> {<<"p","a","n","c","r","e","a","s">>, <<"p","a","n","c","r","e","a","t","i","c">>}] >>

TissueEntryMatches(i, text) == \E k \in TissueTable[i].keywords : Contains(text, k)

\* the blob followed by the Body_Site field
TissueText == all_text \o <<" ">> \o str_lower(row_str(row, "Body_Site"))

\* C23: tissue_origin is the name of the first entry of the table one of whose
\* keywords occurs in the blob concatenated with Body_Site; "unknown" when no
\* entry matches; never empty.
C23_TissueFirstMatch ==
    pc = "done"
        => /\ result.tissue_origin # ""
           /\ \A i \in 1..Len(TissueTable) :
                  TissueEntryMatches(i, TissueText)
                  /\ (\A j \in 1..(i - 1) : ~TissueEntryMatches(j, TissueText))
                      => result.tissue_origin = TissueTable[i].name
           /\ (\A i \in 1..Len(TissueTable) : ~TissueEntryMatches(i, TissueText))
                  => result.tissue_origin = "unknown"

\* a record whose text names both the stomach and the esophagus
C23_Witness ==
    /\ pc = "done"
    /\ TissueEntryMatches(1, TissueText)
    /\ TissueEntryMatches(2, TissueText)
    /\ result.tissue_origin = "esophagus"

\* C24: every entry of the set load_cell_line_reference returned is
\* lower-cased, trimmed and at least 3 characters long, and classification
\* leaves the set as it was loaded.
C24_ReferenceNormalised ==
    pc \in {"classify", "done"}
        => /\ \A n \in cell_line_names.names :
                  /\ str_lower(n) = n
                  /\ str_strip(n) = n
                  /\ Len(n) >= 3
           /\ cell_line_names = load_cell_line_reference(ref_file)

\* a classification done with a set that was loaded from a padded,
\* upper-case name beside a row of two-character names
C24_Witness ==
    /\ pc = "done"
    /\ ~cell_line_names.none
    /\ <<"m","c","f","7">> \in cell_line_names.names
    /\ \E r \in ref_file.rows : ~r.CellLineName.na /\ Len(r.CellLineName.text) < 3

\* C26: is_cell_line is set exactly when top_label is Cell line; a record
\* labelled Tumor by the explicit flag never has it set, and no later stage
\* changes a Cell line label.
C26_CellLineFlagIffLabel ==
    pc = "done"
        => /\ result.is_cell_line = "yes" <=> result.top_label = "Cell line"
           /\ FlagSet(row) => result.is_cell_line = "no" /\ result.top_label = "Tumor"
           /\ primary.top_label = "Cell line" => result.top_label = "Cell line"

\* a flagged record whose blob names a cell line of the reference
C26_Witness ==
    /\ pc = "done"
    /\ FlagSet(row)
    /\ ~cell_line_names.none
    /\ \E n \in cell_line_names.names : StandaloneToken(n, all_text)
    /\ result.is_cell_line = "no"

\* the allowlist with every field named once, in the order of first mention
AllowlistOnce ==
    SelectSeq([i \in 1..Len(fields_to_check) |->
                  IF \E j \in 1..(i - 1) : fields_to_check[j] = fields_to_check[i]
                  THEN "" ELSE fields_to_check[i]],
              LAMBDA f : f # "")

\* the lower-cased values of the fields of `fields`, from position i on, that
\* are present, not empty and not "nan"
RECURSIVE UsableValues(_, _, _)
UsableValues(r, fields, i) ==
    IF i > Len(fields) THEN <<>>
    ELSE (IF fields[i] \in DOMAIN r /\ r[fields[i]] # <<>>
             /\ str_lower(r[fields[i]]) # <<"n","a","n">>
          THEN <<str_lower(r[fields[i]])>> ELSE <<>>)
         \o UsableValues(r, fields, i + 1)

\* C25: the blob is the single-space join, in allowlist order, of the
\* lower-cased values of the allowlisted fields that are present, not empty
\* and not "nan"; each such field contributes its value once, the others
\* nothing.
C25_BlobOncePerField ==
    pc = "done" => all_text = join_space(UsableValues(row, AllowlistOnce, 1))

(***************************************************************************)
(* The reconciliation run: one of the three scripts on one input directory *)
(***************************************************************************)
ClassifierIdle ==
    /\ ref_file = [readable |-> FALSE, rows |-> {}]
    /\ cell_line_names = NoneRef
    /\ row = [Tumor |-> <<>>, is_tumor |-> <<>>, disease |-> <<>>,
              sample_title |-> <<>>, Body_Site |-> <<>>]
    /\ all_text = <<>>
    /\ primary = InitialClassification
    /\ result = InitialClassification

InitMerge ==
    /\ pc = "merge"
    /\ script = "none"
    /\ sources \in SourceSets
    /\ outcome = IdleOutcome
    /\ ClassifierIdle
    /\ TableIdle
    /\ DownloadIdle
    /\ PipelineIdle

RunCancerClassificationMerge ==
    /\ pc = "merge"
    /\ script' = "merge_metadata_cancer_classification"
    /\ outcome' = main_cancer_classification(sources)
    /\ pc' = "merged"
    /\ UNCHANGED <<sources, ref_file, cell_line_names, row, all_text, primary, result,
                   df, result_df, classified, category_srr,
                   args, futures, download, pipeline>>

RunEnhancedMerge ==
    /\ pc = "merge"
    /\ script' = "merge_metadata_enhanced"
    /\ outcome' = main_enhanced(sources)
    /\ pc' = "merged"
    /\ UNCHANGED <<sources, ref_file, cell_line_names, row, all_text, primary, result,
                   df, result_df, classified, category_srr,
                   args, futures, download, pipeline>>

RunMaximumMerge ==
    /\ pc = "merge"
    /\ script' = "merge_metadata_maximum"
    /\ outcome' = main_maximum(sources)
    /\ pc' = "merged"
    /\ UNCHANGED <<sources, ref_file, cell_line_names, row, all_text, primary, result,
                   df, result_df, classified, category_srr,
                   args, futures, download, pipeline>>

NextMerge == RunCancerClassificationMerge \/ RunEnhancedMerge \/ RunMaximumMerge

SpecMerge == InitMerge /\ [][NextMerge]_vars

(***************************************************************************)
(* Properties of the reconciliation run                                    *)
(***************************************************************************)
NoPrimarySource ==
    df_empty(load_source(sources.ena)) /\ df_empty(load_source(sources.runinfo))

\* C10: a reconciliation run whose ENA and RunInfo sources are both empty or
\* missing writes no output table.
C10_NoOutputWithoutPrimary == pc = "merged" /\ NoPrimarySource => ~outcome.written

\* the two scripts that test for the missing primary sources
ValidatingScripts == {"merge_metadata_cancer_classification", "merge_metadata_maximum"}

\* C11: a run with no usable seed source (ENA and RunInfo both empty) ends in
\* an outcome its caller can tell from a successful run: a failure status or
\* an error value, not a plain return.
C11_TypedError ==
    pc = "merged" /\ script \in ValidatingScripts /\ NoPrimarySource
        => <<exit_status(outcome), return_value(outcome)>> # <<0, "None">>

\* a merge step whose source is not empty and whose join key is missing from
\* the table merged so far or from the source
KeyMissing(g) ==
    /\ g.before.status = "ok"
    /\ ~df_empty(g.right)
    /\ (~has_col(g.before.t, g.key) \/ ~has_col(g.right, g.key))

\* C12: merging a non-primary source (RunInfo, BioSample, BioProject, SRA-XML,
\* ffq) whose join key is not a column of the table merged so far, or not a
\* column of the source, skips the source: the table stays as it was and no
\* error is raised.
C12_SkipWithoutKey ==
    pc = "merged" /\ script = "merge_metadata_cancer_classification"
        => \A i \in 1..Len(merge_steps(sources)) :
               KeyMissing(merge_steps(sources)[i])
                   => merge_steps(sources)[i].after = merge_steps(sources)[i].before

\* the values of column i of a frame, top to bottom
column_values(t, i) == [r \in 1..Len(t.rows) |-> t.rows[r][i]]

NoDuplicateNames(t) ==
    \A i, j \in 1..Len(t.cols) : t.cols[i] = t.cols[j] => i = j

\* a step keeps every column the table had, under its name and in its place,
\* and every row of the result carries the values of a row the table had
KeepsExisting(before, after) ==
    /\ Len(after.cols) >= Len(before.cols)
    /\ SubSeq(after.cols, 1, Len(before.cols)) = before.cols
    /\ \A r \in 1..Len(after.rows) :
           \E q \in 1..Len(before.rows) :
               SubSeq(after.rows[r], 1, Len(before.cols)) = before.rows[q]
    /\ \A q \in 1..Len(before.rows) :
           \E r \in 1..Len(after.rows) :
               SubSeq(after.rows[r], 1, Len(before.cols)) = before.rows[q]

\* a merge step that did merge: every column of the source whose name the
\* table already had is in the result under the name qualified by the
\* source's suffix, with the source's value in every row the source matches
QualifiesColliding(g) ==
    \A c \in 1..Len(g.right.cols) :
        g.right.cols[c] # g.key /\ has_col(g.before.t, g.right.cols[c])
            => /\ has_col(g.after.t, g.right.cols[c] \o g.suffix)
               /\ \A m \in 1..Len(g.right.rows) :
                      (\E q \in 1..Len(g.before.t.rows) :
                           g.before.t.rows[q][col_index(g.before.t, g.key)]
                               = g.right.rows[m][col_index(g.right, g.key)])
                      => \E r \in 1..Len(g.after.t.rows) :
                             /\ g.after.t.rows[r][col_index(g.after.t, g.key)]
                                    = g.right.rows[m][col_index(g.right, g.key)]
                             /\ g.after.t.rows[r][col_index(g.after.t,
                                                   g.right.cols[c] \o g.suffix)]
                                    = g.right.rows[m][c]

\* the table of the run before the columns are reordered
merged_before_reorder(src) == merge_steps(src)[Len(merge_steps(src))].after

\* C13: after all merges every column name that occurs in two merged sources
\* names exactly one output column, which holds the values of the source
\* merged earlier; the later source's values are kept under the name
\* qualified by that source and overwrite no existing column; no two output
\* columns have the same name.
C13_CollisionKeepsEarlier ==
    pc = "merged" /\ script = "merge_metadata_cancer_classification" /\ outcome.written
        => /\ NoDuplicateNames(outcome.table)
           /\ \A i \in 1..Len(merge_steps(sources)) :
                  LET g == merge_steps(sources)[i]
                  IN  g.after.status = "ok" /\ g.after # g.before
                          => /\ KeepsExisting(g.before.t, g.after.t)
                             /\ QualifiesColliding(g)
           /\ LET last == merged_before_reorder(sources).t
              IN  \A c \in 1..Len(last.cols) :
                      /\ has_col(outcome.table, last.cols[c])
                      /\ column_values(outcome.table, col_index(outcome.table, last.cols[c]))
                             = column_values(last, col_index(last, last.cols[c]))

\* a written table in which study_title collided three times and
\* library_name twice
C13_Witness ==
    /\ pc = "merged" /\ script = "merge_metadata_cancer_classification"
    /\ outcome.written
    /\ has_col(outcome.table, "study_title")
    /\ has_col(outcome.table, "study_title_bp")
    /\ has_col(outcome.table, "study_title_xml")
    /\ has_col(outcome.table, "library_name_ffq")
    /\ \E r \in 1..Len(outcome.table.rows) :
           /\ outcome.table.rows[r][col_index(outcome.table, "study_title")]
                  = <<"g","a","s","t","r","i","c"," ","c","o","h","o","r","t">>
           /\ outcome.table.rows[r][col_index(outcome.table, "study_title_xml")]
                  = <<"x","m","l"," ","t","i","t","l","e">>

\* C14: the output columns are the preferred-column list restricted to the
\* columns present, in declared order, followed by all remaining columns in
\* the order they were first seen; the rows keep the order they had.
C14_ColumnOrder ==
    pc = "merged" /\ script = "merge_metadata_cancer_classification" /\ outcome.written
        => LET last == merged_before_reorder(sources).t
               present == SelectSeq(cancer_classification_cols, LAMBDA c : has_col(last, c))
               rest == SelectSeq(last.cols, LAMBDA c : ~InList(c, cancer_classification_cols))
           IN  /\ outcome.table.cols = present \o rest
               /\ \A c \in 1..Len(outcome.table.cols) :
                      column_values(outcome.table, c)
                          = column_values(last, col_index(last, outcome.table.cols[c]))

\* a written table in which a preferred column of a later source (SampleName,
\* from RunInfo) stands before a column of the seed, and a column outside the
\* list (biosample_title) stands after the preferred ones
C14_Witness ==
    /\ pc = "merged" /\ script = "merge_metadata_cancer_classification"
    /\ outcome.written
    /\ has_col(outcome.table, "SampleName")
    /\ has_col(outcome.table, "biosample_title")
    /\ has_col(outcome.table, "sample_accession")
    /\ has_col(outcome.table, "study_title")
    /\ col_index(outcome.table, "SampleName") < col_index(outcome.table, "sample_accession")
    /\ col_index(outcome.table, "study_title") < col_index(outcome.table, "biosample_title")
    /\ outcome.table.cols # merged_before_reorder(sources).t.cols

\* the loader of a source returned pd.DataFrame() for a missing or unparsable file
Unavailable(file) == ~file.exists \/ ~file.parsable

\* every source in its regular form
RegularSources ==
    [ena |-> File(EnaTable), runinfo |-> File(RunInfoTable), bios |-> File(BioSampleTable),
     bioproj |-> File(BioProjectTable), sra_xml |-> File(SraXmlTable),
     geo |-> File(GeoTable), ffq |-> File(FfqTable)]

\* exactly one source is unavailable, the others are regular
SingleUnavailable ==
    \E s \in DOMAIN sources :
        /\ Unavailable(sources[s])
        /\ \A o \in DOMAIN sources \ {s} : sources[o] = RegularSources[o]

\* C17: when the input of a single source adapter is missing or unparsable the
\* adapter yields an empty table and the run still completes and writes the
\* table merged from the other sources, also when the unavailable source is
\* ENA and RunInfo is there.
C17_SourceUnavailable ==
    pc = "merged" /\ SingleUnavailable
        => /\ outcome.written
           /\ outcome.table.rows # <<>>

\* a GEO cell that is a key token
IsGseToken(v) == v # NaN /\ starts_with(v, <<"G","S","E">>)

\* the GEO records, in source order, one of whose key tokens occurs in the title
GeoMatches(geo, title) ==
    SelectSeq(indices(geo.rows),
              LAMBDA r : \E c \in 1..Len(geo.cols) :
                             IsGseToken(geo.rows[r][c]) /\ Contains(title, geo.rows[r][c]))

\* C18: every merged row whose study_title contains the key token of at least
\* one GEO record gets its geo_ columns from the first such record in GEO
\* source order, also when two records carry the same token; a row whose
\* title contains no token keeps empty geo_ columns.
C18_GeoFirstMatch ==
    pc = "merged" /\ script = "merge_metadata_cancer_classification" /\ outcome.written
    /\ ~df_empty(load_source(sources.geo)) /\ has_col(outcome.table, "study_title")
        => LET geo == load_source(sources.geo)
               t == outcome.table
           IN  \A r \in 1..Len(t.rows) :
                   LET m == GeoMatches(geo, value_str(t.rows[r][col_index(t, "study_title")]))
                   IN  \A c \in 1..Len(geo.cols) :
                           /\ has_col(t, "geo_" \o geo.cols[c])
                           /\ t.rows[r][col_index(t, "geo_" \o geo.cols[c])]
                                  = IF m = <<>> THEN <<>> ELSE geo.rows[m[1]][c]

\* the table the merges start from: ENA, or RunInfo when ENA is empty
PrimaryTable == seed(load_source(sources.ena), load_source(sources.runinfo)).t

\* C19: the merged table has exactly one row per row of the primary source:
\* no merge of a secondary source, also one with several records under one
\* join key, removes or adds a row, so every primary run identifier stays
\* unique in the output.
C19_OneRowPerPrimaryRow ==
    pc = "merged" /\ script = "merge_metadata_cancer_classification" /\ outcome.written
    /\ has_col(outcome.table, "run_accession")
        => /\ column_values(outcome.table, col_index(outcome.table, "run_accession"))
                  = column_values(PrimaryTable, col_index(PrimaryTable, "run_accession"))
           /\ \A i, j \in 1..Len(outcome.table.rows) :
                  outcome.table.rows[i][col_index(outcome.table, "run_accession")]
                      = outcome.table.rows[j][col_index(outcome.table, "run_accession")]
                  => i = j

(***************************************************************************)
(* The table run: cancer_classification.py on a metadata table, and        *)
(* download_fastq_by_category.py's load_classified_metadata on a           *)
(* classified table                                                        *)
(***************************************************************************)
MaxTableRows == 2

\* a metadata table as pd.read_csv returns it (an empty field is NaN)
PlainCols == <<"run_accession", "sample_title", "disease">>

PlainRows ==
    { <<<<"S","R","R","1">>, <<"H","e","L","a"," ","S","3">>, NaN>>,
      <<<<"S","R","R","2">>, <<"b","a","r","r","e","t","t"," ","n","o"," ","d","y","s","p","l","a","s","i","a">>, <<"e","s","o","p","h","a","g","u","s">>>>,
      <<NaN, <<"p","a","s","s","a","g","e","d"," ","c","u","l","t","u","r","e">>, NaN>>,
      <<<<"S","R","R","4">>, <<"a","d","j","a","c","e","n","t"," ","t","i","s","s","u","e">>, <<"M","e","l","a","n","o","m","a">>>> }

\* a table that already carries classification columns: the output of an
\* earlier pass, or a table labelled by hand
ClassifiedCols == <<"top_label", "is_cell_line", "run_accession", "sample_title">>

ClassifiedRows ==
    { <<<<"C","e","l","l"," ","l","i","n","e">>, <<"y","e","s">>, <<"S","R","R","1">>, <<"H","e","L","a"," ","S","3">>>>,
      <<<<"C","e","l","l","_","l","i","n","e">>, <<"y","e","s">>, <<"S","R","R","2">>, <<"m","c","f","7"," ","c","e","l","l","s">>>>,
      <<<<"T","u","m","o","r">>, <<"n","o">>, <<"S","R","R","3">>, <<"m","e","l","a","n","o","m","a">>>>,
      <<<<"C","e","l","l"," ","l","i","n","e">>, <<"y","e","s">>, NaN, <<"c","u","l","t","u","r","e">>>> }

Tables(cols, pool) ==
    { [cols |-> cols, rows |-> rs] :
        rs \in UNION { [1..n -> pool] : n \in 0..MaxTableRows } }

InputTables == Tables(PlainCols, PlainRows) \cup Tables(ClassifiedCols, ClassifiedRows)

InitTable ==
    /\ pc = "read"
    /\ ref_file \in ReferenceFiles
    /\ cell_line_names = NoneRef
    /\ df \in InputTables
    /\ result_df = IdleOutcome
    /\ classified = EmptyFrame
    /\ category_srr = NoPartition
    /\ row = [Tumor |-> <<>>, is_tumor |-> <<>>, disease |-> <<>>,
              sample_title |-> <<>>, Body_Site |-> <<>>]
    /\ all_text = <<>>
    /\ primary = InitialClassification
    /\ result = InitialClassification
    /\ script = "none"
    /\ sources = NoSources
    /\ outcome = IdleOutcome
    /\ DownloadIdle
    /\ PipelineIdle

\* cancer_classification.py, main (lines 203-265)
RunClassification ==
    /\ pc = "read"
    /\ cell_line_names' = load_cell_line_reference(ref_file)
    /\ \E order \in IterationOrders(cell_line_names'.names) :
           result_df' = main_classification(df, cell_line_names', order)
    /\ pc' = "classified"
    /\ UNCHANGED <<ref_file, row, all_text, primary, result, script, sources, outcome,
                   df, classified, category_srr,
                   args, futures, download, pipeline>>

\* download_fastq_by_category.py, load_classified_metadata, on the table the
\* classifier wrote or on a table that came labelled
LoadClassifiedMetadata ==
    /\ pc \in {"read", "classified"}
    /\ pc = "classified" => result_df.written
    /\ classified' = IF pc = "read" THEN df ELSE read_written_tsv(result_df.table)
    /\ category_srr' = load_classified_metadata(classified')
    /\ pc' = "partitioned"
    /\ UNCHANGED <<ref_file, cell_line_names, row, all_text, primary, result, script,
                   sources, outcome, df, result_df,
                   args, futures, download, pipeline>>

NextTable == RunClassification \/ LoadClassifiedMetadata

SpecTable == InitTable /\ [][NextTable]_vars

(***************************************************************************)
(* Properties of the table run                                             *)
(***************************************************************************)
CellLineSpellings == {<<"C","e","l","l"," ","l","i","n","e">>, <<"C","e","l","l","_","l","i","n","e">>}

\* the run identifiers of the rows labelled with either spelling, in row order
CellLineRuns(t) ==
    LET hit == SelectSeq(indices(t.rows),
                   LAMBDA r : /\ t.rows[r][col_index(t, "top_label")] \in CellLineSpellings
                              /\ t.rows[r][col_index(t, "run_accession")] # NaN)
    IN  [k \in 1..Len(hit) |-> t.rows[hit[k]][col_index(t, "run_accession")]]

C16_SevenColumnsPrepended ==
    pc = "classified" /\ df.rows # <<>>
        => /\ result_df.written
           /\ result_df.table.cols = classification_cols \o df.cols
           /\ Len(result_df.table.rows) = Len(df.rows)
           /\ \A r \in 1..Len(df.rows) :
                  SubSeq(result_df.table.rows[r], Len(classification_cols) + 1,
                         Len(result_df.table.cols)) = df.rows[r]
(***************************************************************************)
(* The download run: main() of download_fastq_by_category.py               *)
(***************************************************************************)
MaxSrr == 2

SrrIds == <<<<"S","R","R","1">>, <<"S","R","R","2">>, <<"S","R","R","3">>, <<"S","R","R","4">>>>

SrrLists == { SubSeq(SrrIds, 1, n) : n \in 0..MaxSrr }

NormalLists == { <<>>, <<<<"S","R","R","9">>>> }

\* --categories is free text: a name load_classified_metadata has no key for is skipped
CategoryLists ==
    { <<"Tumor">>, <<"Tumor", "Normal">>, <<"Normal", "Tumor">>, <<"Other", "Tumor">> }

DownloadArgs ==
    { [categories |-> cs,
       category_srr |-> <<<<"Tumor", t>>, <<"Pre-malignant", <<>>>>, <<"Normal", n>>,
                          <<"Cell_line", <<>>>>, <<"Unknown", <<>>>>>>,
       max_per_category |-> m, workers |-> w] :
      cs \in CategoryLists, t \in SrrLists, n \in NormalLists, m \in {0, 1}, w \in {1, 2} }

InitDownload ==
    /\ pc = "download"
    /\ args \in DownloadArgs
    /\ futures = <<>>
    /\ download = MainStart
    /\ script = "none"
    /\ sources = NoSources
    /\ outcome = IdleOutcome
    /\ ClassifierIdle
    /\ TableIdle
    /\ PipelineIdle

\* main, lines 219-225, and download_category up to the submissions (lines 133-158)
EnterCategory ==
    /\ pc = "download"
    /\ download.pc = "main"
    /\ download.next <= Len(args.categories)
    /\ LET e == enter_category(args, download)
       IN  /\ download' = e.download
           /\ futures' = e.futures
    /\ UNCHANGED <<pc, args, pipeline, ref_file, cell_line_names, row, all_text, primary,
                   result, script, sources, outcome, df, result_df, classified, category_srr>>

\* a worker thread runs one attempt of download_srr (lines 57-129)
WorkerAttempt ==
    /\ pc = "download"
    /\ download.pc = "category"
    /\ \E i \in 1..Len(futures), o \in AttemptOutcomes :
         /\ may_run(futures, i, args.workers)
         /\ futures' = [futures EXCEPT ![i] = download_srr(futures[i], o)]
    /\ UNCHANGED <<pc, args, download, pipeline, ref_file, cell_line_names, row, all_text,
                   primary, result, script, sources, outcome, df, result_df, classified,
                   category_srr>>

\* as_completed hands the main thread a finished future (lines 160-170)
Collect ==
    /\ pc = "download"
    /\ download.pc = "category"
    /\ \E i \in 1..Len(futures) :
         /\ futures[i].state = "done"
         /\ ~futures[i].collected
         /\ download' = count_result(download, futures[i])
         /\ futures' = [futures EXCEPT ![i].collected = TRUE]
    /\ UNCHANGED <<pc, args, pipeline, ref_file, cell_line_names, row, all_text, primary,
                   result, script, sources, outcome, df, result_df, classified, category_srr>>

\* download_category returns (line 173) and main adds the pair (lines 221-227)
ReturnCategory ==
    /\ pc = "download"
    /\ download.pc = "category"
    /\ \A i \in 1..Len(futures) : futures[i].collected
    /\ download' = return_category(download)
    /\ UNCHANGED <<pc, args, futures, pipeline, ref_file, cell_line_names, row, all_text,
                   primary, result, script, sources, outcome, df, result_df, classified,
                   category_srr>>

\* main, lines 231-245: the loop is over, the summary file is written
WriteSummary ==
    /\ pc = "download"
    /\ download.pc = "main"
    /\ download.next > Len(args.categories)
    /\ download' = [download EXCEPT !.pc = "finished"]
    /\ UNCHANGED <<pc, args, futures, pipeline, ref_file, cell_line_names, row, all_text,
                   primary, result, script, sources, outcome, df, result_df, classified,
                   category_srr>>

NextDownload == EnterCategory \/ WorkerAttempt \/ Collect \/ ReturnCategory \/ WriteSummary

SpecDownload == InitDownload /\ [][NextDownload]_vars

RetriedOutcome(o) ==
    \/ o.prefetch \in {"failed", "timeout"}
    \/ o.fastq_dump \in {"failed", "timeout"}

EndsTheCall(o) ==
    \/ o.prefetch = "denied"
    \/ o.prefetch = "ok" /\ ~o.sra_exists

\* C27: every call of download_srr makes at most retry_count attempts and a call
\* that has not returned still has an attempt left (each attempt ends, its
\* subprocesses running under a timeout); it returns True only after an attempt
\* in which prefetch and fastq-dump both exited 0; a dbGaP / Access denied
\* prefetch failure or a missing .sra file returns False at once; any other
\* failed or timed-out attempt is followed by the next attempt until
\* retry_count attempts are used, and then the call returns False.
C27_DownloadSrrRetries ==
    \A i \in 1..Len(futures) :
        LET f == futures[i]
        IN  /\ f.attempt <= retry_count
            /\ f.value = "none" => f.attempt < retry_count
            /\ f.value = "True" => f.last.prefetch = "ok" /\ f.last.fastq_dump = "ok"
            /\ EndsTheCall(f.last) => f.value = "False"
            /\ RetriedOutcome(f.last) =>
                 f.value = (IF f.attempt < retry_count THEN "none" ELSE "False")

\* one call succeeded on its second attempt, another used all its attempts
C27_Witness ==
    /\ \E i \in 1..Len(futures) :
         /\ futures[i].value = "True"
         /\ futures[i].attempt = 2
    /\ \E i \in 1..Len(futures) :
         /\ futures[i].value = "False"
         /\ futures[i].attempt = retry_count
         /\ RetriedOutcome(futures[i].last)

RECURSIVE sum_of(_, _, _)
sum_of(pairs, j, k) ==
    IF k = 0 THEN 0 ELSE pairs[k][j] + sum_of(pairs, j, k - 1)

\* C28: for every SRR list, the empty one included, download_category returns a
\* pair (successful, failed) whose sum is the number of ids submitted, whatever
\* the order in which the workers finish; main completes for every requested
\* category and its totals are the sums of the pairs.
C28_CategoryPairs ==
    /\ download.pc # "crashed"
    /\ \A k \in 1..Len(download.returned) :
         /\ Len(download.returned[k]) = 2
         /\ download.returned[k][1] + download.returned[k][2] = download.submitted[k]
    /\ download.pc = "finished" =>
         /\ download.total_successful = sum_of(download.returned, 1, Len(download.returned))
         /\ download.total_failed = sum_of(download.returned, 2, Len(download.returned))

(***************************************************************************)
(* The pipeline run: main() of cancer_analysis_pipeline.py                 *)
(***************************************************************************)
PipelineArgs ==
    [test : BOOLEAN, max_results : {1000, 10}, max_per_category : {0, 2},
     skip_download : BOOLEAN]

\* the list file may be left over from an earlier run into the same directory
InitPipeline ==
    /\ pc = "pipeline"
    /\ \E a \in PipelineArgs, stale \in BOOLEAN : pipeline = PipelineStart(a, stale)
    /\ script = "none"
    /\ sources = NoSources
    /\ outcome = IdleOutcome
    /\ ClassifierIdle
    /\ TableIdle
    /\ DownloadIdle

\* run_complete_pipeline, lines 158-161
Step1Search ==
    /\ pc = "pipeline"
    /\ pipeline.pc = "step"
    /\ next_step(pipeline) = "search"
    /\ \E found \in SearchOutcomes : pipeline' = step1_search_cancer_type(pipeline, found)
    /\ UNCHANGED <<pc, args, futures, download, ref_file, cell_line_names, row, all_text,
                   primary, result, script, sources, outcome, df, result_df, classified,
                   category_srr>>

\* run_complete_pipeline, lines 163-168
Step2Metadata ==
    /\ pc = "pipeline"
    /\ pipeline.pc = "step"
    /\ next_step(pipeline) = "metadata"
    /\ \E returncode \in {0, 1} : pipeline' = step2_collect_metadata(pipeline, returncode)
    /\ UNCHANGED <<pc, args, futures, download, ref_file, cell_line_names, row, all_text,
                   primary, result, script, sources, outcome, df, result_df, classified,
                   category_srr>>

\* run_complete_pipeline, lines 170-175
Step3Classify ==
    /\ pc = "pipeline"
    /\ pipeline.pc = "step"
    /\ next_step(pipeline) = "classification"
    /\ \E returncode \in {0, 1} : pipeline' = run_step(pipeline, "classification", returncode)
    /\ UNCHANGED <<pc, args, futures, download, ref_file, cell_line_names, row, all_text,
                   primary, result, script, sources, outcome, df, result_df, classified,
                   category_srr>>

\* run_complete_pipeline, lines 177-183
Step4Download ==
    /\ pc = "pipeline"
    /\ pipeline.pc = "step"
    /\ next_step(pipeline) = "download"
    /\ \E returncode \in {0, 1} : pipeline' = run_step(pipeline, "download", returncode)
    /\ UNCHANGED <<pc, args, futures, download, ref_file, cell_line_names, row, all_text,
                   primary, result, script, sources, outcome, df, result_df, classified,
                   category_srr>>

\* run_complete_pipeline, lines 185-189
Summary ==
    /\ pc = "pipeline"
    /\ pipeline.pc = "step"
    /\ next_step(pipeline) = "summary"
    /\ \E written \in BOOLEAN : pipeline' = create_pipeline_summary(pipeline, written)
    /\ UNCHANGED <<pc, args, futures, download, ref_file, cell_line_names, row, all_text,
                   primary, result, script, sources, outcome, df, result_df, classified,
                   category_srr>>

NextPipeline == Step1Search \/ Step2Metadata \/ Step3Classify \/ Step4Download \/ Summary

SpecPipeline == InitPipeline /\ [][NextPipeline]_vars

\* C29: run_complete_pipeline starts its steps in the order search, metadata,
\* classification, download; a step is started only after every earlier step
\* succeeded; at the first failing step the run returns False and neither a
\* later step nor the summary is executed; with skip_download the download step
\* is never started; the summary is written only after all executed steps
\* succeeded.
C29_StepOrder ==
    LET p == pipeline
        n == Len(p.started)
    IN  /\ n <= Len(StepOrder)
        /\ p.started = SubSeq(StepOrder, 1, n)
        /\ Len(p.results) = n
        /\ \A k \in 1..(n - 1) : p.results[k]
        /\ (n >= 1 /\ ~p.results[n]) => p.returned = "False" /\ p.summary = "none"
        /\ p.args.skip_download => n <= 3
        /\ p.summary # "none" =>
             /\ \A k \in 1..n : p.results[k]
             /\ n = (IF p.args.skip_download THEN 3 ELSE 4)

\* a run with skip_download wrote its summary after three successful steps
C29_Witness ==
    /\ pipeline.summary = "written"
    /\ pipeline.args.skip_download
    /\ pipeline.started = <<"search", "metadata", "classification">>

\* C30: whenever step 2 is started, the SRR list file step 1 hands over exists.
C30_ListFileHandedOver ==
    pipeline.handed_over # "missing"

====
